---- MODULE Spec2Model ----
(***************************************************************************)
(* A model of the emerald_message package: the schema family enumeration,  *)
(* the schema registry (AvroMessageSchemas) and the e-mail containers      *)
(* built on AbstractContainer.                                             *)
(*                                                                         *)
(* Conventions.  Python strings are opaque tokens; their ordering is the   *)
(* position in StrOrder (code point order).  None is the token None.  An   *)
(* exception is modelled by the class name used at its raise site.  A call *)
(* returns a record whose field status is "ok" or the exception name.      *)
(* The exception classes the modules import from emerald_message.error are *)
(* taken to exist there (error.py defines only three of them), so that the *)
(* modules can be imported and the behaviour of their code examined.       *)
(***************************************************************************)
EXTENDS Integers, Sequences, FiniteSets, TLC

None == "None"

(***************************************************************************)
(* Bounds of the model.                                                    *)
(***************************************************************************)
MaxFiles == 3
MaxRecords == 2
MaxMissing == 1
MaxChars == 4
MaxEntries == 2

(***************************************************************************)
(* Strings.  StrOrder lists every name of the model in Python's string     *)
(* order, so that sorted() and < on str can be computed.                   *)
(***************************************************************************)
StrOrder ==
    << "", ".git", ".h", "10.0.0.1", "10.0.0.2", "__pycache__", "a", "b", "bad", "c", "c1", "c2",
       "d", "f1", "f2", "h1", "m1", "m2", "s1", "s2", "schema_email", "schema_sms", "self", "t1",
       "u1", "u2" >>

StrPos(s) == CHOOSE i \in 1..Len(StrOrder) : StrOrder[i] = s

StrLt(s, t) == StrPos(s) < StrPos(t)

\* str.startswith('.')
StartsWithDot(s) == s \in {".git", ".h", ".avsc", ".txt"}

\* str.startswith('__')
StartsWithDunder(s) == s \in {"__pycache__"}

\* sorted(S) for a set of strings
RECURSIVE SortedStr(_)
SortedStr(S) ==
    IF S = {} THEN << >>
    ELSE LET m == CHOOSE x \in S : \A y \in S : ~StrLt(y, x)
         IN  << m >> \o SortedStr(S \ {m})

Range(s) == { s[i] : i \in 1..Len(s) }

(***************************************************************************)
(* The schema resource tree (the package directory emerald_message/        *)
(* avro_schemas).  folders: the top-level directories.  A file entry is    *)
(* [family, sub, name, isdir, ext, content]: sub = "" is the family root.  *)
(* content is what the file holds: kind "schema" (a record schema with     *)
(* short name sname, namespace ns, referring to the full names refs),      *)
(* "badjson" (not JSON) or "badschema" (JSON, not an Avro schema).         *)
(***************************************************************************)
NoContent == [kind |-> "none", sname |-> "", ns |-> "", refs |-> {}]

SchemaContent(n, ns, refs) == [kind |-> "schema", sname |-> n, ns |-> ns, refs |-> refs]

FileEntry(fam, sub, name, ext, content) ==
    [family |-> fam, sub |-> sub, name |-> name, isdir |-> FALSE, ext |-> ext, content |-> content]

DirEntry(fam, sub, name) ==
    [family |-> fam, sub |-> sub, name |-> name, isdir |-> TRUE, ext |-> "", content |-> NoContent]

FolderPool == { "schema_email", "schema_sms", ".git", "__pycache__" }

FilePool ==
    { FileEntry("schema_email", "a", "attachment.avsc", ".avsc",
                SchemaContent("EmailAttachment", "emerald", {})),
      FileEntry("schema_email", "b", "envelope.avsc", ".avsc",
                SchemaContent("EmailEnvelope", "emerald", {})),
      FileEntry("schema_email", "", "container.avsc", ".avsc",
                SchemaContent("EmailContainer", "emerald", {<<"emerald", "EmailAttachment">>})),
      FileEntry("schema_email", "", "body.avsc", ".avsc",
                SchemaContent("EmailBody", "emerald", {})),
      FileEntry("schema_email", "b", "attachment2.avsc", ".avsc",
                SchemaContent("EmailAttachment", "other", {})),
      FileEntry("schema_email", "", "broken.avsc", ".avsc",
                [kind |-> "badjson", sname |-> "", ns |-> "", refs |-> {}]),
      FileEntry("schema_email", "a", "invalid.avsc", ".avsc",
                [kind |-> "badschema", sname |-> "", ns |-> "", refs |-> {}]),
      FileEntry("schema_email", "", "notes.txt", ".txt", NoContent),
      FileEntry("schema_email", ".h", "hidden.avsc", ".avsc",
                SchemaContent("Hidden", "emerald", {})),
      DirEntry("schema_email", "a", "nested"),
      FileEntry("schema_sms", "", "sms.avsc", ".avsc",
                SchemaContent("Sms", "emerald", {})) }

VARIABLES
    tree,                        \* the schema resource tree: [folders, files]
    declared,                    \* the values of the AvroMessageSchemaFamily members
    pc,                          \* position of the start-up code
    schema_extension,            \* self._schema_extension (normalised)
    schema_subfolders,           \* __init__: the families to scan
    schema_type_counter,         \* __init__: index of the family being scanned
    schema_search_path_list,     \* __init__: the search paths of that family
    this_search_path_counter,    \* __init__: index of the search path being scanned
    listing,                     \* __init__: entries of this_search_path not yet returned by scandir
    known_avro_schema_dot_names, \* self._known_avro_schema_dot_names: full names registered
    avro_schema_list,            \* __init__: the local list of records
    self_avro_schema_list,       \* self._avro_schema_list (unassigned at first)
    parse_log,                   \* the files handed to the parser, in order, with the namespace seen
    load_error,                  \* the exception that ended start-up, or None
    avro_schema_collection,      \* AvroMessageSchemaFrozen.avro_schema_collection, or None
    lookup_result,               \* result of the last registry lookup
    dest,                        \* the file at the container URI
    wr,                          \* the last write_avro call and its outcome
    rd                           \* the last construction or decoding call and its outcome

loadvars == << tree, declared, pc, schema_extension, schema_subfolders, schema_type_counter,
               schema_search_path_list, this_search_path_counter, listing,
               known_avro_schema_dot_names, avro_schema_list, self_avro_schema_list,
               parse_log, load_error, avro_schema_collection, lookup_result >>

contvars == << dest, wr, rd >>

vars == << loadvars, contvars >>

(***************************************************************************)
(* AvroMessageSchemaFamily: the enumeration of schema families.  A member  *)
(* is named by FamilyMember(value); the source declares EMAIL only, the    *)
(* model also covers an enumeration with a second member.                  *)
(***************************************************************************)
FamilyMember(value) ==
    CASE value = "schema_email" -> "EMAIL"
      [] value = "schema_sms" -> "SMS"
      [] OTHER -> None

DeclaredChoices == { {"schema_email"}, {"schema_email", "schema_sms"} }

enumerate_schema_family_names(t) ==
    { n \in t.folders : ~StartsWithDot(n) /\ ~StartsWithDunder(n) }

\* __new__ of one member: the value must name a schema folder
AvroMessageSchemaFamily_new(value, t) ==
    IF value \notin enumerate_schema_family_names(t)
    THEN [status |-> "RuntimeError", value |-> value]
    ELSE [status |-> "ok", value |-> value]

\* AvroMessageSchemaFamily(value): the member with that value
AvroMessageSchemaFamily_call(value, decl) ==
    IF value \in decl
    THEN [status |-> "ok", member |-> FamilyMember(value)]
    ELSE [status |-> "ValueError", member |-> None]

(***************************************************************************)
(* AvroMessageSchemas.__init__: the registry load.                         *)
(***************************************************************************)
ExtensionChoices == { "avsc", ".avsc" }

AddExtsep(ext) == IF ext = "avsc" THEN ".avsc" ELSE ext

\* self._schema_extension
NormalizedExtension(ext) ==
    IF ~StartsWithDot(ext) /\ ext # "" THEN AddExtsep(ext) ELSE ext

SubfolderChoices ==
    { None, << "schema_email" >>, << "schema_sms" >>, << "schema_email", "schema_sms" >>,
      << "schema_sms", "schema_email" >> }

\* the immediate subdirectories of a family folder
SubdirsOf(t, fam) == { e.sub : e \in { x \in t.files : x.family = fam /\ x.sub # "" } }

\* PASS 1: the non-hidden subdirectories, sorted
subdirectory_list(t, fam) == SortedStr({ d \in SubdirsOf(t, fam) : ~StartsWithDot(d) })

\* mutant: the family root is searched first
SearchPathList_root_first(t, fam) == << "" >> \o subdirectory_list(t, fam)

\* the subdirectories first, the family root last
SearchPathList(t, fam) == subdirectory_list(t, fam) \o << "" >>

\* what os.scandir returns for a search path (in no particular order)
ScanDir(t, fam, sub) ==
    { e \in t.files : e.family = fam /\ e.sub = sub }
    \cup (IF sub = "" THEN { DirEntry(fam, "", d) : d \in SubdirsOf(t, fam) } ELSE {})

FullName(content) == << content.ns, content.sname >>

\* mutant: every file is parsed against a namespace of its own
ParseSchemaFile_own_names(e, names) ==
    IF e.content.kind \in {"badjson", "none"}
    THEN [status |-> "EmeraldSchemaParsingException", cause |-> "JSONDecodeError",
          file |-> e.name, names |-> names]
    ELSE IF e.content.kind = "badschema" \/ e.content.refs # {}
    THEN [status |-> "EmeraldSchemaParsingException", cause |-> "SchemaParseException",
          file |-> e.name, names |-> names]
    ELSE [status |-> "ok", cause |-> None, file |-> e.name, names |-> names]

\* mutant: a file that cannot be parsed is passed over
ParseSchemaFile_swallow(e, names) ==
    IF e.content.kind # "schema" \/ ~(e.content.refs \subseteq names)
          \/ FullName(e.content) \in names
    THEN [status |-> "ok", cause |-> None, file |-> e.name, names |-> names]
    ELSE [status |-> "ok", cause |-> None, file |-> e.name,
          names |-> names \cup { FullName(e.content) }]

\* a file or stream handle opened by the program and how the path taken leaves it:
\* "closed" by close() or by the end of a with block, "unreferenced" when the last
\* reference is dropped without a close (the garbage collector may finalise it),
\* "open" when an exception leaves the function before the close
Handle(resource, state) == [resource |-> resource, state |-> state]

\* open(schema_file, encoding='utf-8', mode='r') as the argument of json.load: the
\* file object is bound to no name and close() is never called on it
open_schema_file(e) == Handle(e.name, "unreferenced")

\* json.load followed by avro.schema.SchemaFromJSONData against the shared names
ParseSchemaFile(e, names) ==
    IF e.content.kind \in {"badjson", "none"}
    THEN [status |-> "EmeraldSchemaParsingException", cause |-> "JSONDecodeError",
          file |-> e.name, names |-> names]
    ELSE IF \/ e.content.kind = "badschema"
            \/ ~(e.content.refs \subseteq names)
            \/ FullName(e.content) \in names
    THEN [status |-> "EmeraldSchemaParsingException", cause |-> "SchemaParseException",
          file |-> e.name, names |-> names]
    ELSE [status |-> "ok", cause |-> None, file |-> e.name,
          names |-> names \cup { FullName(e.content) }]

\* no record, no registry, no lookup (None, for values that are records otherwise)
NoRecord == [avro_schema_family_name |-> None, avro_schema_name |-> None,
             avro_schema |-> << None, None >>]

NoCollection == [built |-> FALSE, avro_schema_list |-> << >>, known_avro_schema_dot_names |-> {}]

Unassigned == [assigned |-> FALSE, list |-> << >>]

NoLookup == [called |-> FALSE]

AvroMessageSchemaRecord(member, content) ==
    [avro_schema_family_name |-> member, avro_schema_name |-> content.sname,
     avro_schema |-> FullName(content)]

\* mutant: the family is not compared
get_matching_schema_record_name_only(list, schema_family, schema_name) ==
    LET hits == { i \in 1..Len(list) : list[i].avro_schema_name = schema_name }
    IN  IF hits # {}
        THEN [status |-> "ok",
              record |-> list[CHOOSE i \in hits : \A j \in hits : i <= j],
              known |-> << >>]
        ELSE [status |-> "KeyError", record |-> NoRecord,
              known |-> [i \in 1..Len(list) |->
                            << list[i].avro_schema_family_name, list[i].avro_schema_name >>]]

get_matching_schema_record_by_family_and_name(list, schema_family, schema_name) ==
    LET hits == { i \in 1..Len(list) :
                    /\ list[i].avro_schema_family_name = schema_family
                    /\ list[i].avro_schema_name = schema_name }
    IN  IF hits # {}
        THEN [status |-> "ok",
              record |-> list[CHOOSE i \in hits : \A j \in hits : i <= j],
              known |-> << >>]
        ELSE [status |-> "KeyError", record |-> NoRecord,
              known |-> [i \in 1..Len(list) |->
                            << list[i].avro_schema_family_name, list[i].avro_schema_name >>]]

(***************************************************************************)
(* Python values.  A value is a pair << type name, payload >>, so that     *)
(* values of different types can be told apart.  A container instance is   *)
(* << class name, container_parameters >>, a parameter object is           *)
(* << parameter class name, record of fields >>.                           *)
(***************************************************************************)
PyNone == << "NoneType", None >>

PyStr(s) == << "str", s >>

PyInt(i) == << "int", i >>

PyBool(b) == << "bool", b >>

PyList(q) == << "list", q >>

PyFrozenSet(S) == << "frozenset", S >>

PyDict(f) == << "dict", f >>

TypeOf(v) == v[1]

Payload(v) == v[2]

\* sorted(S) for a set of str values
RECURSIVE SortedPyStr(_)
SortedPyStr(S) ==
    IF S = {} THEN << >>
    ELSE LET m == CHOOSE x \in S : \A y \in S : ~StrLt(Payload(y), Payload(x))
         IN  << m >> \o SortedPyStr(S \ {m})

\* netaddr.IPAddress: the addresses of the model and their string form
IPStrings == << "10.0.0.1", "10.0.0.2" >>

\* str(IPAddress)
IPAddress_str(ip) == PyStr(IPStrings[Payload(ip)])

\* IPAddress(addr): parses the string form, AddrFormatError otherwise
IPAddress_new(v) ==
    IF TypeOf(v) = "str" /\ \E i \in 1..Len(IPStrings) : IPStrings[i] = Payload(v)
    THEN [status |-> "ok",
          value |-> << "IPAddress", CHOOSE i \in 1..Len(IPStrings) : IPStrings[i] = Payload(v) >>]
    ELSE [status |-> "AddrFormatError", value |-> PyNone]

\* spooky.hash128 on the content strings of the model (distinct strings, distinct hashes)
Hash128Order == << "c2", "s2", "f1", "c1", "s1", "c" >>

hash128(v) == CHOOSE i \in 1..Len(Hash128Order) : Hash128Order[i] = Payload(v)

ContainerTypes ==
    { "EmailAttachment", "EmailBody", "EmailEnvelope", "EmailMessageMetadata", "EmailContainer" }

\* the key order of each container's map
KeysOf(t) ==
    CASE t = "EmailAttachment" -> << "filename", "mimetype", "contents_base64" >>
      [] t = "EmailBody" -> << "message_body_text", "message_body_html" >>
      [] t = "EmailEnvelope" ->
           << "address_from", "address_to_collection", "message_subject",
              "message_rx_timestamp_iso8601" >>
      [] t = "EmailMessageMetadata" ->
           << "router_source_tag", "routed_timestamp_iso8601", "email_sender_ip",
              "attachment_count", "email_headers", "email_spf_sender_passed",
              "email_dkim_sender_passed" >>
      [] t = "EmailContainer" ->
           << "email_message_metadata", "email_envelope", "email_body",
              "email_attachment_collection" >>

\* the Avro type of each field of each schema
FieldType(t, k) ==
    CASE k \in { "filename", "mimetype", "contents_base64", "message_body_text",
                 "address_from", "message_subject", "message_rx_timestamp_iso8601",
                 "router_source_tag", "routed_timestamp_iso8601", "email_sender_ip",
                 "email_headers" } -> "string"
      [] k = "message_body_html" -> "null|string"
      [] k = "address_to_collection" -> "array<string>"
      [] k = "attachment_count" -> "int"
      [] k \in { "email_spf_sender_passed", "email_dkim_sender_passed" } -> "null|boolean"
      [] k = "email_message_metadata" -> "EmailMessageMetadata"
      [] k = "email_envelope" -> "EmailEnvelope"
      [] k = "email_body" -> "EmailBody"
      [] k = "email_attachment_collection" -> "array<EmailAttachment>"

\* avro.io.Validate of a datum against a record schema: every field of the schema,
\* read with dict.get, has the field's type
RECURSIVE ValidateRecord(_, _)
ValidateField(ty, v) ==
    CASE ty = "string" -> TypeOf(v) = "str"
      [] ty = "int" -> TypeOf(v) = "int"
      [] ty = "null|string" -> TypeOf(v) \in { "NoneType", "str" }
      [] ty = "null|boolean" -> TypeOf(v) \in { "NoneType", "bool" }
      [] ty = "array<string>" ->
           /\ TypeOf(v) = "list"
           /\ \A i \in 1..Len(Payload(v)) : TypeOf(Payload(v)[i]) = "str"
      [] ty = "array<EmailAttachment>" ->
           /\ TypeOf(v) = "list"
           /\ \A i \in 1..Len(Payload(v)) : ValidateRecord("EmailAttachment", Payload(v)[i])
      [] OTHER -> ValidateRecord(ty, v)

DictGet(d, k) == IF k \in DOMAIN Payload(d) THEN Payload(d)[k] ELSE PyNone

ValidateRecord(t, d) ==
    /\ TypeOf(d) = "dict"
    /\ \A i \in 1..Len(KeysOf(t)) :
          ValidateField(FieldType(t, KeysOf(t)[i]), DictGet(d, KeysOf(t)[i]))

\* what the writer stores and the reader returns: the fields of the schema
Datum(t, d) == PyDict([ k \in Range(KeysOf(t)) |-> DictGet(d, k) ])

(***************************************************************************)
(* AbstractContainer and the five containers.                              *)
(***************************************************************************)
get_container_schema_matching_identifier(t) ==
    [container_avro_schema_family_name |-> "EMAIL", container_avro_schema_name |-> t]

\* the classes that implement _get_container_parameters_required_subclass_type
HasRequiredSubclassType == ContainerTypes \ { "EmailBody" }

ParametersClass(t) ==
    CASE t = "EmailAttachment" -> "EmailAttachmentParameters"
      [] t = "EmailEnvelope" -> "EmailEnvelopeParameters"
      [] t = "EmailMessageMetadata" -> "EmailMessageMetadataParameters"
      [] t = "EmailContainer" -> "EmailContainerParameters"
      [] t = "EmailBody" -> "_EmailBodyParameters"

\* the parameter classes that extend ContainerParameters
ContainerParametersClasses ==
    { "EmailAttachmentParameters", "EmailEnvelopeParameters",
      "EmailMessageMetadataParameters", "EmailContainerParameters" }

\* cls.get_avro_schema_record()
get_avro_schema_record(t, collection) ==
    get_matching_schema_record_by_family_and_name(
        collection.avro_schema_list,
        get_container_schema_matching_identifier(t).container_avro_schema_family_name,
        get_container_schema_matching_identifier(t).container_avro_schema_name)

NoInstance == << "NoneType", None >>

\* AbstractContainer.__init__ for an instance of class t
AbstractContainer_init(t, container_parameters, collection) ==
    IF TypeOf(container_parameters) \notin ContainerParametersClasses
    THEN [status |-> "EmeraldMessageContainerInitializationError", value |-> NoInstance]
    ELSE IF TypeOf(container_parameters) # ParametersClass(t)
    THEN [status |-> "EmeraldMessageContainerInitializationError", value |-> NoInstance]
    ELSE IF get_container_schema_matching_identifier(t).container_avro_schema_name = ""
    THEN [status |-> "EmeraldMessageContainerInitializationError", value |-> NoInstance]
    ELSE IF get_avro_schema_record(t, collection).status # "ok"
    THEN [status |-> get_avro_schema_record(t, collection).status, value |-> NoInstance]
    ELSE [status |-> "ok", value |-> << t, container_parameters >>]

\* cls(container_parameters): a class with an abstract method left cannot be
\* instantiated; EmailBody.__init__ would call the base __init__ without its argument
Construct(t, container_parameters, collection) ==
    IF t \notin HasRequiredSubclassType
    THEN [status |-> "TypeError", value |-> NoInstance]
    ELSE AbstractContainer_init(t, container_parameters, collection)

Fields(instance) == Payload(Payload(instance))

\* the classes that define get_as_dict
HasGetAsDict == { "EmailAttachment", "EmailEnvelope", "EmailMessageMetadata", "EmailContainer" }

SeqOfSet(S) == CHOOSE q \in [1..Cardinality(S) -> S] : Range(q) = S

\* sorted(list) of dict values: dicts cannot be ordered, so two or more raise TypeError
SortedDicts(S) ==
    IF Cardinality(S) >= 2
    THEN [status |-> "TypeError", value |-> PyNone]
    ELSE [status |-> "ok", value |-> PyList(SeqOfSet(S))]

\* get_as_dict of an instance
RECURSIVE get_as_dict(_)
get_as_dict(instance) ==
    LET f == Fields(instance)
    IN  CASE TypeOf(instance) = "EmailAttachment" ->
               [status |-> "ok",
                value |-> PyDict([filename |-> f.filename, mimetype |-> f.mimetype,
                                  contents_base64 |-> f.contents_base64])]
          [] TypeOf(instance) = "EmailEnvelope" ->
               [status |-> "ok",
                value |-> PyDict([address_from |-> f.address_from,
                                  address_to_collection |->
                                      PyList(SortedPyStr(Payload(f.address_to_collection))),
                                  message_subject |-> f.message_subject,
                                  message_rx_timestamp_iso8601 |->
                                      f.message_rx_timestamp_iso8601])]
          [] TypeOf(instance) = "EmailMessageMetadata" ->
               [status |-> "ok",
                value |-> PyDict([router_source_tag |-> f.router_source_tag,
                                  routed_timestamp_iso8601 |-> f.routed_timestamp_iso8601,
                                  email_sender_ip |-> IPAddress_str(f.email_sender_ip),
                                  attachment_count |-> f.attachment_count,
                                  email_headers |-> f.email_headers,
                                  email_spf_sender_passed |-> f.email_spf_sender_passed,
                                  email_dkim_sender_passed |-> f.email_dkim_sender_passed])]
          [] TypeOf(instance) = "EmailContainer" ->
               IF \/ TypeOf(f.email_message_metadata) \notin HasGetAsDict
                  \/ TypeOf(f.email_envelope) \notin HasGetAsDict
                  \/ TypeOf(f.email_body) \notin HasGetAsDict
               THEN [status |-> "AttributeError", value |-> PyNone]
               ELSE LET atts == SortedDicts({ get_as_dict(x).value :
                                              x \in Payload(f.email_attachment_collection) })
                    IN  IF atts.status # "ok"
                        THEN [status |-> atts.status, value |-> PyNone]
                        ELSE [status |-> "ok",
                              value |-> PyDict(
                                 [email_message_metadata |->
                                      get_as_dict(f.email_message_metadata).value,
                                  email_envelope |-> get_as_dict(f.email_envelope).value,
                                  email_body |-> get_as_dict(f.email_body).value,
                                  email_attachment_collection |-> atts.value])]

\* __eq__ of EmailAttachment, EmailEnvelope and EmailMessageMetadata
container_eq(self, other) ==
    LET a == Fields(self)
        b == Fields(other)
    IN  CASE TypeOf(self) = "EmailAttachment" ->
               /\ TypeOf(other) = "EmailAttachment"
               /\ a.filename = b.filename
               /\ a.mimetype = b.mimetype
               /\ hash128(a.contents_base64) = hash128(b.contents_base64)
          [] TypeOf(self) = "EmailEnvelope" ->
               /\ TypeOf(other) = "EmailEnvelope"
               /\ a.address_from = b.address_from
               /\ SortedPyStr(Payload(a.address_to_collection))
                     = SortedPyStr(Payload(b.address_to_collection))
               /\ a.message_rx_timestamp_iso8601 = b.message_rx_timestamp_iso8601
          [] TypeOf(self) = "EmailMessageMetadata" ->
               /\ TypeOf(other) = "EmailMessageMetadata"
               /\ a.router_source_tag = b.router_source_tag
               /\ a.routed_timestamp_iso8601 = b.routed_timestamp_iso8601
               /\ a.email_sender_ip = b.email_sender_ip
               /\ a.attachment_count = b.attachment_count
               /\ a.email_headers = b.email_headers
               /\ a.email_spf_sender_passed = b.email_spf_sender_passed
               /\ a.email_dkim_sender_passed = b.email_dkim_sender_passed

(***************************************************************************)
(* Files.  A file is absent, empty (just opened for writing), or an Avro    *)
(* container with the writer's schema and a list of records.               *)
(***************************************************************************)
AbsentFile == [kind |-> "absent", schema |-> None, records |-> << >>]

EmptyFile == [kind |-> "empty", schema |-> None, records |-> << >>]

AvroFile(t, records) == [kind |-> "avro", schema |-> t, records |-> records]

Uris == { "", "/tmp/x.avro" }

\* mutant: the destination is opened for appending
OpenAppend(file) == IF file.kind = "avro" THEN file ELSE EmptyFile

\* open(avro_container_uri, "wb"): the file is created or truncated
OpenWb(file) == EmptyFile

\* DataFileWriter(fp, DatumWriter(), schema): the header with the writer's schema
DataFileWriter(file, t) == AvroFile(t, file.records)

WriteResult(status, cause, file) == [status |-> status, cause |-> cause, dest |-> file]

\* mutant: the codec's AvroTypeException is not caught
write_avro_data_uncaught(t, avro_container_uri, data_as_dictionary, file) ==
    IF avro_container_uri = ""
    THEN WriteResult("EmeraldMessageSerializationError", "uri", file)
    ELSE IF TypeOf(data_as_dictionary) # "dict"
    THEN WriteResult("EmeraldMessageSerializationError", "type", file)
    ELSE LET writer == DataFileWriter(OpenWb(file), t)
         IN  IF ~ValidateRecord(t, data_as_dictionary)
             THEN WriteResult("AvroTypeException", "AvroTypeException", writer)
             ELSE WriteResult("ok", None,
                              AvroFile(t, Append(writer.records, Datum(t, data_as_dictionary))))

\* AbstractContainer._write_avro_data
write_avro_data(t, avro_container_uri, data_as_dictionary, file) ==
    IF avro_container_uri = ""
    THEN WriteResult("EmeraldMessageSerializationError", "uri", file)
    ELSE IF TypeOf(data_as_dictionary) # "dict"
    THEN WriteResult("EmeraldMessageSerializationError", "type", file)
    ELSE LET writer == DataFileWriter(OpenWb(file), t)
         IN  IF ~ValidateRecord(t, data_as_dictionary)
             THEN \* the with blocks close the writer: header, no record
                  WriteResult("EmeraldMessageSerializationError", "AvroTypeException", writer)
             ELSE WriteResult("ok", None,
                              AvroFile(t, Append(writer.records, Datum(t, data_as_dictionary))))

\* write_avro of an instance
write_avro(instance, avro_container_uri, file) ==
    IF TypeOf(instance) = "EmailBody"
    THEN \* EmailBody.write_avro: no get_as_dict, no handler around append
         IF avro_container_uri = ""
         THEN WriteResult("ValueError", "uri", file)
         ELSE LET data == PyDict([message_body_text |-> Fields(instance).message_body_text,
                                  message_body_html |-> Fields(instance).message_body_html])
              IN  IF ~ValidateRecord("EmailBody", data)
                  THEN WriteResult("AvroTypeException", "AvroTypeException",
                                   DataFileWriter(OpenWb(file), "EmailBody"))
                  ELSE WriteResult("ok", None, AvroFile("EmailBody", << Datum("EmailBody", data) >>))
    ELSE LET g == get_as_dict(instance)
         IN  IF g.status # "ok"
             THEN WriteResult(g.status, "get_as_dict", file)
             ELSE write_avro_data(TypeOf(instance), avro_container_uri, g.value, file)

\* the handles write_avro opens and the state it leaves them in
write_avro_handles(instance, avro_container_uri) ==
    IF TypeOf(instance) = "EmailBody"
    THEN \* EmailBody.write_avro: writer.close() follows writer.append
         IF avro_container_uri = "" THEN {}
         ELSE IF ~ValidateRecord("EmailBody",
                    PyDict([message_body_text |-> Fields(instance).message_body_text,
                            message_body_html |-> Fields(instance).message_body_html]))
         THEN { Handle(avro_container_uri, "open") }
         ELSE { Handle(avro_container_uri, "closed") }
    ELSE \* _write_avro_data: both with blocks close on every path
         IF get_as_dict(instance).status # "ok" \/ avro_container_uri = ""
               \/ TypeOf(get_as_dict(instance).value) # "dict"
         THEN {}
         ELSE { Handle(avro_container_uri, "closed") }

(***************************************************************************)
(* Reading.  A result is the instance returned or the exception raised;    *)
(* for the missing-field error it carries what the message reports.        *)
(***************************************************************************)
Returned(v) == [status |-> "ok", value |-> v, missing |-> None, count |-> 0, present |-> {}]

Raised(exception) ==
    [status |-> exception, value |-> PyNone, missing |-> None, count |-> 0, present |-> {}]

\* the EmeraldMessageDeserializationError raised by the except KeyError clauses
MissingField(avro_parameter_dict, key) ==
    [status |-> "EmeraldMessageDeserializationError", value |-> PyNone, missing |-> key,
     count |-> Cardinality(DOMAIN Payload(avro_parameter_dict)),
     present |-> DOMAIN Payload(avro_parameter_dict)]

\* the EmeraldMessageDeserializationError raised by _from_avro_generic
TooManyRecords(n) ==
    [status |-> "EmeraldMessageDeserializationError", value |-> PyNone,
     missing |-> None, count |-> n, present |-> {}]

\* AbstractContainer.get_avro_schema_record(): the abstract classmethod
\* get_container_schema_matching_identifier returns None, whose attribute is read
AbstractContainer_get_avro_schema_record == Raised("AttributeError")

\* AbstractContainer._from_avro_generic
from_avro_generic(avro_container_uri, file) ==
    IF avro_container_uri = "" \/ file.kind = "absent"
    THEN Raised("FileNotFoundError")
    ELSE IF Len(file.records) > 1
    THEN TooManyRecords(Len(file.records))
    ELSE IF Len(file.records) = 0
    THEN \* the message of the intended error is built first
         AbstractContainer_get_avro_schema_record
    ELSE Returned(file.records[1])

\* the conversion with an absent SPF or DKIM flag read as False
ConvertField_flags_coerced(t, k, v) ==
    CASE t = "EmailEnvelope" /\ k = "address_to_collection" ->
           IF TypeOf(v) = "list"
           THEN Returned(PyFrozenSet(Range(Payload(v))))
           ELSE Raised("TypeError")
      [] t = "EmailMessageMetadata" /\ k = "email_sender_ip" ->
           IF IPAddress_new(v).status = "ok"
           THEN Returned(IPAddress_new(v).value)
           ELSE Raised(IPAddress_new(v).status)
      [] t = "EmailMessageMetadata"
            /\ k \in { "email_spf_sender_passed", "email_dkim_sender_passed" } ->
           Returned(IF v = PyNone THEN PyBool(FALSE) ELSE v)
      [] OTHER -> Returned(v)

\* the conversion applied to the value of a key before it becomes a parameter
ConvertField(t, k, v) ==
    CASE t = "EmailEnvelope" /\ k = "address_to_collection" ->
           IF TypeOf(v) = "list"
           THEN Returned(PyFrozenSet(Range(Payload(v))))
           ELSE Raised("TypeError")
      [] t = "EmailMessageMetadata" /\ k = "email_sender_ip" ->
           IF IPAddress_new(v).status = "ok"
           THEN Returned(IPAddress_new(v).value)
           ELSE Raised(IPAddress_new(v).status)
      [] OTHER -> Returned(v)

\* from_avro_as_dict of EmailAttachment, EmailEnvelope and EmailMessageMetadata: the
\* keyword arguments are evaluated in order, then the instance is constructed, all
\* inside try ... except KeyError
simple_from_avro_as_dict(t, avro_parameter_dict, collection) ==
    LET keys == KeysOf(t)
        d == Payload(avro_parameter_dict)
        failing == { i \in 1..Len(keys) :
                        \/ keys[i] \notin DOMAIN d
                        \/ ConvertField(t, keys[i], d[keys[i]]).status # "ok" }
    IN  IF failing # {}
        THEN LET k == keys[CHOOSE i \in failing : \A j \in failing : i <= j]
             IN  IF k \notin DOMAIN d
                 THEN MissingField(avro_parameter_dict, k)
                 ELSE Raised(ConvertField(t, k, d[k]).status)
        ELSE LET parameters == << ParametersClass(t),
                                  [ k \in Range(keys) |-> ConvertField(t, k, d[k]).value ] >>
                 made == Construct(t, parameters, collection)
             IN  CASE made.status = "ok" -> Returned(made.value)
                   [] made.status = "KeyError" ->
                        \* the registry's KeyError is caught by the same clause
                        MissingField(avro_parameter_dict, "Unable to locate schema")
                   [] OTHER -> Raised(made.status)

\* EmailContainer.from_avro_as_dict
EmailContainer_from_avro_as_dict(avro_parameter_dict, collection) ==
    LET d == Payload(avro_parameter_dict)
    IN  IF "email_attachment_collection" \notin DOMAIN d
        THEN \* read before the try block
             Raised("KeyError")
        ELSE IF TypeOf(d.email_attachment_collection) # "list"
        THEN Raised("TypeError")
        ELSE
        LET atts == Payload(d.email_attachment_collection)
            att(i) == simple_from_avro_as_dict("EmailAttachment", atts[i], collection)
            failing == { i \in 1..Len(atts) : att(i).status # "ok" }
        IN  IF failing # {}
            THEN att(CHOOSE i \in failing : \A j \in failing : i <= j)
            ELSE IF "email_message_metadata" \notin DOMAIN d
            THEN MissingField(avro_parameter_dict, "email_message_metadata")
            ELSE IF simple_from_avro_as_dict("EmailMessageMetadata", d.email_message_metadata,
                                             collection).status # "ok"
            THEN simple_from_avro_as_dict("EmailMessageMetadata", d.email_message_metadata,
                                          collection)
            ELSE IF "email_envelope" \notin DOMAIN d
            THEN MissingField(avro_parameter_dict, "email_envelope")
            ELSE IF simple_from_avro_as_dict("EmailEnvelope", d.email_envelope,
                                             collection).status # "ok"
            THEN simple_from_avro_as_dict("EmailEnvelope", d.email_envelope, collection)
            ELSE \* EmailBody has no from_avro_as_dict: the attribute lookup fails
                 \* before the key email_body is read
                 Raised("AttributeError")

\* cls.from_avro_as_dict(avro_parameter_dict)
from_avro_as_dict(t, avro_parameter_dict, collection) ==
    CASE t = "EmailBody" -> Raised("AttributeError")
      [] t = "EmailContainer" -> EmailContainer_from_avro_as_dict(avro_parameter_dict, collection)
      [] OTHER -> simple_from_avro_as_dict(t, avro_parameter_dict, collection)

\* EmailBody.from_avro: every datum is turned into an instance, the last one is kept
EmailBody_from_avro(avro_container_uri, file, collection) ==
    IF avro_container_uri = "" \/ file.kind = "absent"
    THEN Raised("FileNotFoundError")
    ELSE IF Len(file.records) = 0
    THEN AbstractContainer_get_avro_schema_record
    ELSE LET datum == Payload(file.records[1])
         IN  IF "message_body_text" \notin DOMAIN datum \/ "message_body_html" \notin DOMAIN datum
             THEN Raised("KeyError")
             ELSE \* EmailBody(message_body_text=..., message_body_html=...)
                  Raised("TypeError")

\* the handles from_avro opens and the state it leaves them in
from_avro_handles(t, avro_container_uri, file) ==
    IF avro_container_uri = "" \/ file.kind = "absent"
    THEN {}
    ELSE IF t = "EmailBody"
    THEN \* EmailBody.from_avro: reader.close() follows the loop over the records
         IF Len(file.records) = 0
         THEN { Handle(avro_container_uri, "closed") }
         ELSE { Handle(avro_container_uri, "open") }
    ELSE \* _from_avro_generic: both with blocks close on every path
         { Handle(avro_container_uri, "closed") }

\* cls.from_avro(avro_container_uri)
from_avro(t, avro_container_uri, file, collection) ==
    IF t = "EmailBody"
    THEN EmailBody_from_avro(avro_container_uri, file, collection)
    ELSE LET datum_to_load == from_avro_generic(avro_container_uri, file)
         IN  IF datum_to_load.status # "ok"
             THEN datum_to_load
             ELSE from_avro_as_dict(t, datum_to_load.value, collection)

NoWrite == [called |-> FALSE]

NoRead == [called |-> FALSE]

(***************************************************************************)
(* The parameter records, maps and files the callers of the model supply.  *)
(***************************************************************************)
EmailAttachmentParameters(filename, contents_base64) ==
    << "EmailAttachmentParameters",
       [filename |-> filename, mimetype |-> PyStr("m1"), contents_base64 |-> contents_base64] >>

EmailEnvelopeParameters(address_to_collection, message_subject) ==
    << "EmailEnvelopeParameters",
       [address_from |-> PyStr("u1"),
        address_to_collection |-> PyFrozenSet(address_to_collection),
        message_subject |-> message_subject,
        message_rx_timestamp_iso8601 |-> PyStr("t1")] >>

EmailMessageMetadataParameters(attachment_count, spf, dkim) ==
    << "EmailMessageMetadataParameters",
       [router_source_tag |-> PyStr("s1"),
        routed_timestamp_iso8601 |-> PyStr("t1"),
        email_sender_ip |-> << "IPAddress", 1 >>,
        attachment_count |-> attachment_count,
        email_headers |-> PyStr("h1"),
        email_spf_sender_passed |-> spf,
        email_dkim_sender_passed |-> dkim] >>

EmailBodyParameters(message_body_text, message_body_html) ==
    << "_EmailBodyParameters",
       [message_body_text |-> message_body_text, message_body_html |-> message_body_html] >>

EmailContainerParameters(email_body, attachments) ==
    << "EmailContainerParameters",
       [email_message_metadata |->
            << "EmailMessageMetadata", EmailMessageMetadataParameters(PyInt(1), PyNone, PyNone) >>,
        email_envelope |->
            << "EmailEnvelope", EmailEnvelopeParameters({ PyStr("u1") }, PyStr("s1")) >>,
        email_body |-> email_body,
        email_attachment_collection |-> PyFrozenSet(attachments)] >>

\* parameter records whose fields have the annotated types
ValidParameters(t) ==
    CASE t = "EmailAttachment" ->
           { EmailAttachmentParameters(PyStr("f1"), c) : c \in { PyStr("c1"), PyStr("c2") } }
      [] t = "EmailEnvelope" ->
           { EmailEnvelopeParameters(to, PyStr("s1")) :
                to \in { { PyStr("u1") }, { PyStr("u2"), PyStr("u1") } } }
      [] t = "EmailMessageMetadata" ->
           { EmailMessageMetadataParameters(PyInt(1), PyNone, PyNone),
             EmailMessageMetadataParameters(PyInt(1), PyBool(TRUE), PyBool(FALSE)) }
      [] t = "EmailBody" ->
           { EmailBodyParameters(PyStr("s1"), html) : html \in { PyNone, PyStr("s2") } }
      [] t = "EmailContainer" ->
           \* email_body must be an EmailBody, and no EmailBody can be made
           {}

\* parameter records with a field of another type (the dataclasses do not check)
IllTypedParameters(t) ==
    CASE t = "EmailAttachment" -> { EmailAttachmentParameters(PyNone, PyStr("c1")) }
      [] t = "EmailEnvelope" -> { EmailEnvelopeParameters({ PyStr("u1") }, PyNone) }
      [] t = "EmailMessageMetadata" -> { EmailMessageMetadataParameters(PyNone, PyNone, PyNone) }
      [] t = "EmailBody" -> { EmailBodyParameters(PyNone, PyNone) }
      [] t = "EmailContainer" ->
           { EmailContainerParameters(PyNone, { << "EmailAttachment", q >> :
                                                  q \in ValidParameters("EmailAttachment") }) }

ParametersPool(t) == ValidParameters(t) \cup IllTypedParameters(t)

\* a parameter record of another class
ForeignParameters(t) ==
    IF t = "EmailAttachment"
    THEN { EmailEnvelopeParameters({ PyStr("u1") }, PyStr("s1")) }
    ELSE { EmailAttachmentParameters(PyStr("f1"), PyStr("c1")) }

Without(d, K) == PyDict([ k \in DOMAIN Payload(d) \ K |-> Payload(d)[k] ])

\* a complete map of each type
BaseMap(t) ==
    CASE t = "EmailAttachment" ->
           PyDict([filename |-> PyStr("f1"), mimetype |-> PyStr("m1"),
                   contents_base64 |-> PyStr("c1")])
      [] t = "EmailEnvelope" ->
           PyDict([address_from |-> PyStr("u1"),
                   address_to_collection |-> PyList(<< PyStr("u1"), PyStr("u2") >>),
                   message_subject |-> PyStr("s1"),
                   message_rx_timestamp_iso8601 |-> PyStr("t1")])
      [] t = "EmailMessageMetadata" ->
           PyDict([router_source_tag |-> PyStr("s1"), routed_timestamp_iso8601 |-> PyStr("t1"),
                   email_sender_ip |-> PyStr("10.0.0.1"), attachment_count |-> PyInt(1),
                   email_headers |-> PyStr("h1"), email_spf_sender_passed |-> PyNone,
                   email_dkim_sender_passed |-> PyBool(TRUE)])
      [] t = "EmailBody" ->
           PyDict([message_body_text |-> PyStr("s1"), message_body_html |-> PyStr("s2")])
      [] t = "EmailContainer" ->
           PyDict([email_message_metadata |->
                       PyDict([router_source_tag |-> PyStr("s1"),
                               routed_timestamp_iso8601 |-> PyStr("t1"),
                               email_sender_ip |-> PyStr("10.0.0.1"),
                               attachment_count |-> PyInt(1),
                               email_headers |-> PyStr("h1"),
                               email_spf_sender_passed |-> PyNone,
                               email_dkim_sender_passed |-> PyBool(TRUE)]),
                   email_envelope |->
                       PyDict([address_from |-> PyStr("u1"),
                               address_to_collection |-> PyList(<< PyStr("u1") >>),
                               message_subject |-> PyStr("s1"),
                               message_rx_timestamp_iso8601 |-> PyStr("t1")]),
                   email_body |->
                       PyDict([message_body_text |-> PyStr("s1"),
                               message_body_html |-> PyNone]),
                   email_attachment_collection |->
                       PyList(<< PyDict([filename |-> PyStr("f1"), mimetype |-> PyStr("m1"),
                                         contents_base64 |-> PyStr("c1")]) >>)])

\* the maps handed to from_avro_as_dict: complete, or lacking up to MaxMissing keys
MapPool(t) ==
    { Without(BaseMap(t), K) :
        K \in { S \in SUBSET Range(KeysOf(t)) : Cardinality(S) <= MaxMissing } }

\* the records of files written by other programs
RecordPool ==
    { BaseMap("EmailAttachment"), BaseMap("EmailEnvelope"),
      Without(BaseMap("EmailAttachment"), { "mimetype" }) }

FilePoolAvro ==
    { AvroFile("foreign", q) : q \in UNION { [1..n -> RecordPool] : n \in 0..MaxRecords } }

InitContainers ==
    /\ dest = AbsentFile
    /\ wr = NoWrite
    /\ rd = NoRead

NoError == [status |-> "ok", file |-> None]

Trees ==
    { [folders |-> fo, files |-> fi] :
        fo \in SUBSET FolderPool,
        fi \in { S \in SUBSET FilePool : Cardinality(S) <= MaxFiles } }

\* the loop variables of __init__
this_schema_subfolder == schema_subfolders[schema_type_counter]

this_search_path == schema_search_path_list[this_search_path_counter]

InitLoad ==
    /\ tree \in { t \in Trees : \A e \in t.files : e.family \in t.folders }
    /\ declared \in DeclaredChoices
    /\ pc = "import"
    /\ schema_extension = None
    /\ schema_subfolders = << >>
    /\ schema_type_counter = 0
    /\ schema_search_path_list = << >>
    /\ this_search_path_counter = 0
    /\ listing = {}
    /\ known_avro_schema_dot_names = {}
    /\ avro_schema_list = << >>
    /\ self_avro_schema_list = Unassigned
    /\ parse_log = << >>
    /\ load_error = NoError
    /\ avro_schema_collection = NoCollection
    /\ lookup_result = NoLookup
    /\ InitContainers

envvars == << tree, declared >>

cfgvars == << schema_extension, schema_subfolders >>

loopvars == << schema_type_counter, schema_search_path_list, this_search_path_counter, listing >>

listvars == << known_avro_schema_dot_names, avro_schema_list, self_avro_schema_list, parse_log >>

Abort(err) ==
    /\ pc' = "failed"
    /\ load_error' = err

\* class AvroMessageSchemaFamily is created: __new__ runs for every member
EnumInit ==
    /\ pc = "import"
    /\ LET bad == { v \in declared : AvroMessageSchemaFamily_new(v, tree).status # "ok" }
       IN  IF bad # {}
           THEN Abort([status |-> "RuntimeError", file |-> None])
           ELSE pc' = "enum_ok" /\ UNCHANGED load_error
    /\ UNCHANGED << envvars, cfgvars, loopvars, listvars, avro_schema_collection, lookup_result >>
    /\ UNCHANGED contvars

\* __init__ up to the loop over the families
BeginLoad(subfolders, ext) ==
    /\ pc = "enum_ok"
    /\ schema_extension' = NormalizedExtension(ext)
    /\ schema_subfolders' =
          IF subfolders = None \/ subfolders = << >>
          THEN SortedStr(enumerate_schema_family_names(tree))
          ELSE subfolders
    /\ known_avro_schema_dot_names' = {}
    /\ avro_schema_list' = << >>
    /\ pc' = "family"
    /\ UNCHANGED << envvars, loopvars, self_avro_schema_list, parse_log,
                    load_error, avro_schema_collection, lookup_result >>
    /\ UNCHANGED contvars

\* the next family of the loop: open its resource path and list its search paths
EnterFamily ==
    /\ pc = "family"
    /\ schema_type_counter < Len(schema_subfolders)
    /\ schema_type_counter' = schema_type_counter + 1
    /\ LET fam == schema_subfolders[schema_type_counter + 1]
       IN  IF fam \notin tree.folders
           THEN /\ Abort([status |-> "FileNotFoundError", file |-> fam])
                /\ UNCHANGED << schema_search_path_list, this_search_path_counter >>
           ELSE /\ schema_search_path_list' = SearchPathList(tree, fam)
                /\ this_search_path_counter' = 0
                /\ pc' = "path"
                /\ UNCHANGED load_error
    /\ UNCHANGED << envvars, cfgvars, listing, listvars, avro_schema_collection, lookup_result >>
    /\ UNCHANGED contvars

\* the next search path of the family: os.scandir
EnterPath ==
    /\ pc = "path"
    /\ this_search_path_counter < Len(schema_search_path_list)
    /\ this_search_path_counter' = this_search_path_counter + 1
    /\ listing' = ScanDir(tree, this_schema_subfolder,
                          schema_search_path_list[this_search_path_counter + 1])
    /\ pc' = "scan"
    /\ UNCHANGED << envvars, cfgvars, schema_type_counter, schema_search_path_list, listvars,
                    load_error, avro_schema_collection, lookup_result >>
    /\ UNCHANGED contvars

\* one entry of the scandir iterator: skipped, or parsed and recorded
ScanEntry(e) ==
    /\ pc = "scan"
    /\ e \in listing
    /\ listing' = listing \ {e}
    /\ IF e.isdir \/ e.ext # schema_extension
       THEN UNCHANGED << pc, listvars, load_error >>
       ELSE LET parsed == ParseSchemaFile(e, known_avro_schema_dot_names)
                member == AvroMessageSchemaFamily_call(this_schema_subfolder, declared)
            IN  /\ parse_log' = Append(parse_log,
                                       [file |-> e, names |-> known_avro_schema_dot_names,
                                        handle |-> open_schema_file(e)])
                /\ known_avro_schema_dot_names' = parsed.names
                /\ IF parsed.status # "ok"
                   THEN /\ Abort([status |-> parsed.status, file |-> parsed.file])
                        /\ UNCHANGED << avro_schema_list, self_avro_schema_list >>
                   ELSE IF member.status # "ok"
                   THEN /\ Abort([status |-> member.status, file |-> None])
                        /\ UNCHANGED << avro_schema_list, self_avro_schema_list >>
                   ELSE /\ avro_schema_list' =
                              Append(avro_schema_list,
                                     AvroMessageSchemaRecord(member.member, e.content))
                        \* self._avro_schema_list is the same list object once assigned
                        /\ self_avro_schema_list' =
                              IF self_avro_schema_list.assigned
                              THEN [assigned |-> TRUE, list |-> avro_schema_list']
                              ELSE self_avro_schema_list
                        /\ UNCHANGED << pc, load_error >>
    /\ UNCHANGED << envvars, cfgvars, schema_type_counter, schema_search_path_list,
                    this_search_path_counter, avro_schema_collection, lookup_result >>
    /\ UNCHANGED contvars

\* the scandir iterator is exhausted
EndScan ==
    /\ pc = "scan"
    /\ listing = {}
    /\ pc' = "path"
    /\ UNCHANGED << envvars, cfgvars, loopvars, listvars, load_error,
                    avro_schema_collection, lookup_result >>
    /\ UNCHANGED contvars

\* all search paths of the family are done: self._avro_schema_list = avro_schema_list
EndFamily ==
    /\ pc = "path"
    /\ this_search_path_counter = Len(schema_search_path_list)
    /\ self_avro_schema_list' = [assigned |-> TRUE, list |-> avro_schema_list]
    /\ pc' = "family"
    /\ UNCHANGED << envvars, cfgvars, loopvars, known_avro_schema_dot_names, avro_schema_list,
                    parse_log, load_error, avro_schema_collection, lookup_result >>
    /\ UNCHANGED contvars

\* __init__ returns: AvroMessageSchemaFrozen.avro_schema_collection holds the registry
EndLoad ==
    /\ pc = "family"
    /\ schema_type_counter = Len(schema_subfolders)
    /\ avro_schema_collection' =
          [built |-> TRUE, avro_schema_list |-> self_avro_schema_list.list,
           known_avro_schema_dot_names |-> known_avro_schema_dot_names]
    /\ pc' = "ready"
    /\ UNCHANGED << envvars, cfgvars, loopvars, listvars, load_error, lookup_result >>
    /\ UNCHANGED contvars

FamilyMembers == { "EMAIL", "SMS" }

SchemaNames == { "EmailAttachment", "EmailBody", "EmailEnvelope", "EmailMessageMetadata",
                 "EmailContainer", "Sms" }

\* a lookup that registers the name it misses
Lookup_registering(schema_family, schema_name) ==
    /\ pc = "ready"
    /\ lookup_result' =
          [called |-> TRUE, schema_family |-> schema_family, schema_name |-> schema_name,
           result |-> get_matching_schema_record_by_family_and_name(
                         avro_schema_collection.avro_schema_list, schema_family, schema_name)]
    /\ avro_schema_collection' =
          IF get_matching_schema_record_by_family_and_name(
                avro_schema_collection.avro_schema_list, schema_family, schema_name).status = "ok"
          THEN avro_schema_collection
          ELSE [avro_schema_collection EXCEPT !.avro_schema_list = << >>]
    /\ UNCHANGED << envvars, cfgvars, loopvars, listvars, pc, load_error >>
    /\ UNCHANGED contvars

\* a caller looks a record up in the registry
Lookup(schema_family, schema_name) ==
    /\ pc = "ready"
    /\ lookup_result' =
          [called |-> TRUE, schema_family |-> schema_family, schema_name |-> schema_name,
           result |-> get_matching_schema_record_by_family_and_name(
                         avro_schema_collection.avro_schema_list, schema_family, schema_name)]
    /\ UNCHANGED << envvars, cfgvars, loopvars, listvars, pc, load_error,
                    avro_schema_collection >>
    /\ UNCHANGED contvars

NextLoad ==
    \/ EnumInit
    \/ \E sf \in SubfolderChoices, ext \in ExtensionChoices : BeginLoad(sf, ext)
    \/ EnterFamily
    \/ EnterPath
    \/ \E e \in listing : ScanEntry(e)
    \/ EndScan
    \/ EndFamily
    \/ EndLoad
    \/ \E f \in FamilyMembers, n \in SchemaNames : Lookup(f, n)

SpecLoad == InitLoad /\ [][NextLoad]_vars

(***************************************************************************)
(* The containers.  The container classes use the registry that            *)
(* AvroMessageSchemaFrozen builds when the package is imported.            *)
(***************************************************************************)
ContainerFile(sub, name, content) == FileEntry("schema_email", sub, name, ".avsc", content)

AttachmentSchemaFile ==
    ContainerFile("a", "attachment.avsc", SchemaContent("EmailAttachment", "emerald", {}))

ContainerSchemaFiles ==
    { AttachmentSchemaFile,
      ContainerFile("b", "body.avsc", SchemaContent("EmailBody", "emerald", {})),
      ContainerFile("c", "envelope.avsc", SchemaContent("EmailEnvelope", "emerald", {})),
      ContainerFile("d", "metadata.avsc", SchemaContent("EmailMessageMetadata", "emerald", {})),
      ContainerFile("", "container.avsc",
                    SchemaContent("EmailContainer", "emerald",
                                  { << "emerald", "EmailAttachment" >>, << "emerald", "EmailBody" >>,
                                    << "emerald", "EmailEnvelope" >>,
                                    << "emerald", "EmailMessageMetadata" >> })) }

\* the packaged schemas, the package without the container schema, and a package
\* with the attachment schema only
ContainerTrees ==
    { [folders |-> { "schema_email" }, files |-> ContainerSchemaFiles],
      [folders |-> { "schema_email" },
       files |-> { e \in ContainerSchemaFiles : e.sub # "" }],
      [folders |-> { "schema_email" }, files |-> { AttachmentSchemaFile }] }

Init ==
    /\ tree \in ContainerTrees
    /\ declared = { "schema_email" }
    /\ pc = "import"
    /\ schema_extension = None
    /\ schema_subfolders = << >>
    /\ schema_type_counter = 0
    /\ schema_search_path_list = << >>
    /\ this_search_path_counter = 0
    /\ listing = {}
    /\ known_avro_schema_dot_names = {}
    /\ avro_schema_list = << >>
    /\ self_avro_schema_list = Unassigned
    /\ parse_log = << >>
    /\ load_error = NoError
    /\ avro_schema_collection = NoCollection
    /\ lookup_result = NoLookup
    /\ InitContainers

\* AvroMessageSchemaFrozen: AvroMessageSchemas(avro_schema_subfolders=None,
\* schema_extension='.avsc')
AvroMessageSchemaFrozen == BeginLoad(None, ".avsc")

\* cls(container_parameters=p)
ConstructContainer(t, p) ==
    /\ pc = "ready"
    /\ LET made == Construct(t, p, avro_schema_collection)
       IN  rd' = [called |-> TRUE, op |-> "construct", type |-> t, arg |-> p,
                  result |-> IF made.status = "ok"
                             THEN Returned(made.value)
                             ELSE Raised(made.status)]
    /\ UNCHANGED << dest, wr >>
    /\ UNCHANGED loadvars

\* cls(container_parameters=p).write_avro(uri)
WriteAvro(t, p, avro_container_uri) ==
    /\ pc = "ready"
    /\ LET made == Construct(t, p, avro_schema_collection)
           out == IF made.status # "ok"
                  THEN WriteResult(made.status, "construct", dest)
                  ELSE write_avro(made.value, avro_container_uri, dest)
       IN  /\ wr' = [called |-> TRUE, type |-> t, parameters |-> p,
                     uri |-> avro_container_uri, instance |-> made.value,
                     status |-> out.status, cause |-> out.cause,
                     handles |-> IF made.status # "ok" THEN {}
                                 ELSE write_avro_handles(made.value, avro_container_uri),
                     \* the call follows a successful write_avro to the same file
                     rewrite |-> wr.called /\ wr.status = "ok"]
           /\ dest' = out.dest
    /\ rd' = NoRead
    /\ UNCHANGED loadvars

\* cls.from_avro(uri)
FromAvro(t, avro_container_uri) ==
    /\ pc = "ready"
    /\ rd' = [called |-> TRUE, op |-> "from_avro", type |-> t,
              arg |-> PyStr(avro_container_uri),
              handles |-> from_avro_handles(t, avro_container_uri, dest),
              result |-> from_avro(t, avro_container_uri, dest, avro_schema_collection)]
    /\ UNCHANGED << dest, wr >>
    /\ UNCHANGED loadvars

\* cls.from_avro_as_dict(avro_parameter_dict)
FromAvroAsDict(t, avro_parameter_dict) ==
    /\ pc = "ready"
    /\ rd' = [called |-> TRUE, op |-> "from_avro_as_dict", type |-> t,
              arg |-> avro_parameter_dict,
              result |-> from_avro_as_dict(t, avro_parameter_dict, avro_schema_collection)]
    /\ UNCHANGED << dest, wr >>
    /\ UNCHANGED loadvars

\* the containers whose map is asked for: the pool, and EmailContainers holding
\* no, one or two attachments
GetAsDictPool(t) ==
    IF t = "EmailContainer"
    THEN { EmailContainerParameters(PyNone, atts) :
              atts \in SUBSET { << "EmailAttachment", q >> :
                                  q \in ValidParameters("EmailAttachment") } }
    ELSE ParametersPool(t)

\* cls(container_parameters=p).get_as_dict()
GetAsDict(t, p) ==
    /\ pc = "ready"
    /\ t \in HasGetAsDict
    /\ Construct(t, p, avro_schema_collection).status = "ok"
    /\ LET got == get_as_dict(Construct(t, p, avro_schema_collection).value)
       IN  rd' = [called |-> TRUE, op |-> "get_as_dict", type |-> t, arg |-> p,
                  result |-> IF got.status = "ok"
                             THEN Returned(got.value)
                             ELSE Raised(got.status)]
    /\ UNCHANGED << dest, wr >>
    /\ UNCHANGED loadvars

\* well-typed parameters of the three containers that have a map: every set of
\* to-addresses, both sender addresses, every pair of flags
RoundTripPool(t) ==
    CASE t = "EmailEnvelope" ->
           { EmailEnvelopeParameters(to, subject) :
               to \in SUBSET { PyStr("u1"), PyStr("u2"), PyStr("a") },
               subject \in { PyStr("s1"), PyStr("s2") } }
      [] t = "EmailMessageMetadata" ->
           { << "EmailMessageMetadataParameters",
                [Payload(EmailMessageMetadataParameters(PyInt(1), spf, dkim))
                    EXCEPT !.email_sender_ip = << "IPAddress", ip >>] >> :
               ip \in 1..Len(IPStrings),
               spf \in { PyNone, PyBool(FALSE), PyBool(TRUE) },
               dkim \in { PyNone, PyBool(FALSE), PyBool(TRUE) } }
      [] OTHER -> ValidParameters(t)

\* x = cls(container_parameters=p); y = cls.from_avro_as_dict(x.get_as_dict()); the
\* caller compares x with y and their maps
MapRoundTrip(t, p) ==
    /\ pc = "ready"
    /\ t \in HasGetAsDict \ { "EmailContainer" }
    /\ Construct(t, p, avro_schema_collection).status = "ok"
    /\ LET x == Construct(t, p, avro_schema_collection).value
           y == from_avro_as_dict(t, get_as_dict(x).value, avro_schema_collection)
       IN  rd' = [called |-> TRUE, op |-> "round_trip", type |-> t, arg |-> x,
                  dict |-> get_as_dict(x).value,
                  result |-> y,
                  eq |-> y.status = "ok" /\ container_eq(x, y.value),
                  again |-> IF y.status = "ok" THEN get_as_dict(y.value).value ELSE PyNone]
    /\ UNCHANGED << dest, wr >>
    /\ UNCHANGED loadvars

\* another program leaves an Avro file at the URI
PlaceFile(file) ==
    /\ pc = "ready"
    /\ dest' = file
    /\ wr' = NoWrite
    /\ rd' = NoRead
    /\ UNCHANGED loadvars

\* start-up, then callers that construct containers and decode maps
NextMaps ==
    \/ EnumInit
    \/ AvroMessageSchemaFrozen
    \/ EnterFamily
    \/ EnterPath
    \/ \E e \in listing : ScanEntry(e)
    \/ EndScan
    \/ EndFamily
    \/ EndLoad
    \/ \E t \in ContainerTypes :
          \E p \in ParametersPool(t) \cup ForeignParameters(t) : ConstructContainer(t, p)
    \/ \E t \in ContainerTypes : \E d \in MapPool(t) : FromAvroAsDict(t, d)
    \/ \E t \in ContainerTypes : \E p \in GetAsDictPool(t) : GetAsDict(t, p)
    \/ \E t \in ContainerTypes : \E p \in RoundTripPool(t) : MapRoundTrip(t, p)

SpecMaps == Init /\ [][NextMaps]_vars

\* start-up, then callers that write and read the file at the URI
Next ==
    \/ EnumInit
    \/ AvroMessageSchemaFrozen
    \/ EnterFamily
    \/ EnterPath
    \/ \E e \in listing : ScanEntry(e)
    \/ EndScan
    \/ EndFamily
    \/ EndLoad
    \/ \E t \in ContainerTypes : \E p \in ParametersPool(t), u \in Uris : WriteAvro(t, p, u)
    \/ \E t \in ContainerTypes, u \in Uris : FromAvro(t, u)
    \/ \E f \in FilePoolAvro : PlaceFile(f)

Spec == Init /\ [][Next]_vars

\* the container types the callers of the shared registry work with
SharedTypes == { "EmailAttachment", "EmailContainer" }

\* start-up, then callers that use the one registry of the process in any
\* interleaving: lookups, construction, get_as_dict, write_avro and from_avro
NextShared ==
    \/ EnumInit
    \/ AvroMessageSchemaFrozen
    \/ EnterFamily
    \/ EnterPath
    \/ \E e \in listing : ScanEntry(e)
    \/ EndScan
    \/ EndFamily
    \/ EndLoad
    \/ \E f \in FamilyMembers, n \in SchemaNames : Lookup(f, n)
    \/ \E t \in SharedTypes : \E p \in ParametersPool(t) : ConstructContainer(t, p)
    \/ \E t \in SharedTypes : \E p \in ParametersPool(t) : GetAsDict(t, p)
    \/ \E t \in SharedTypes : \E p \in ParametersPool(t), u \in Uris : WriteAvro(t, p, u)
    \/ \E t \in SharedTypes, u \in Uris : FromAvro(t, u)

SpecShared == Init /\ [][NextShared]_vars

(***************************************************************************)
(* Comparison, hashing and string conversion of the containers.  A         *)
(* frozenset is iterated in an order that depends on how it was built, so  *)
(* the operations that iterate one take the iteration order as an input.   *)
(***************************************************************************)
\* the orders in which a set can be iterated
IterationOrders(S) == { q \in [1..Cardinality(S) -> S] : Range(q) = S }

\* mutant: the iteration order is used as it comes
unsorted(q) == q

\* sorted(iterable) for str values, by insertion
RECURSIVE sorted(_)
sorted(q) ==
    IF q = << >> THEN << >>
    ELSE LET rest == sorted(SubSeq(q, 1, Len(q) - 1))
             x == q[Len(q)]
             i == Cardinality({ j \in 1..Len(rest) : ~StrLt(Payload(x), Payload(rest[j])) })
         IN  SubSeq(rest, 1, i) \o << x >> \o SubSeq(rest, i + 1, Len(rest))

\* list < list for lists of str
RECURSIVE ListLt(_, _)
ListLt(a, b) ==
    IF b = << >> THEN FALSE
    ELSE IF a = << >> THEN TRUE
    ELSE IF a[1] # b[1] THEN StrLt(Payload(a[1]), Payload(b[1]))
    ELSE ListLt(Tail(a), Tail(b))

\* EmailEnvelope.__str__: the parts joined into the string
EmailEnvelope_str(self, iter) ==
    << Fields(self).address_from, sorted(iter), Fields(self).message_subject,
       Fields(self).message_rx_timestamp_iso8601 >>

\* EmailEnvelope.__hash__: hash(str(self)); equal strings have equal hashes
EmailEnvelope_hash(self, iter) == EmailEnvelope_str(self, iter)

\* EmailEnvelope.__eq__
EmailEnvelope_eq(self, other, iter_self, iter_other) ==
    /\ TypeOf(other) = "EmailEnvelope"
    /\ Fields(self).address_from = Fields(other).address_from
    /\ sorted(iter_self) = sorted(iter_other)
    /\ Fields(self).message_rx_timestamp_iso8601 = Fields(other).message_rx_timestamp_iso8601

\* EmailEnvelope.__lt__ (both envelopes, all fields str)
EmailEnvelope_lt(self, other, iter_self, iter_other) ==
    LET a == Fields(self)
        b == Fields(other)
        sorted_self == sorted(iter_self)
        sorted_other == sorted(iter_other)
    IN  IF a.address_from # b.address_from
        THEN StrLt(Payload(a.address_from), Payload(b.address_from))
        ELSE IF sorted_self # sorted_other
        THEN ListLt(sorted_self, sorted_other)
        ELSE IF a.message_subject # b.message_subject
        THEN StrLt(Payload(a.message_subject), Payload(b.message_subject))
        ELSE IF a.message_rx_timestamp_iso8601 # b.message_rx_timestamp_iso8601
        THEN StrLt(Payload(a.message_rx_timestamp_iso8601),
                   Payload(b.message_rx_timestamp_iso8601))
        ELSE FALSE

\* EmailEnvelope.__gt__: the same tests with > for <
EmailEnvelope_gt(self, other, iter_self, iter_other) ==
    EmailEnvelope_lt(other, self, iter_other, iter_self)

\* EmailEnvelope.get_as_dict
EmailEnvelope_get_as_dict(self, iter) ==
    PyDict([address_from |-> Fields(self).address_from,
            address_to_collection |-> PyList(sorted(iter)),
            message_subject |-> Fields(self).message_subject,
            message_rx_timestamp_iso8601 |-> Fields(self).message_rx_timestamp_iso8601])

\* the envelopes compared
EnvelopePool ==
    { EmailEnvelopeParameters(to, subject) :
        to \in SUBSET { PyStr("u1"), PyStr("u2"), PyStr("a") },
        subject \in { PyStr("s1"), PyStr("s2") } }

\* a caller builds two envelopes and compares, hashes and projects them (the
\* operations change nothing, so a behaviour holds one comparison)
CompareEnvelopes(p, q, iter_p, iter_q) ==
    /\ pc = "ready"
    /\ ~rd.called
    /\ Construct("EmailEnvelope", p, avro_schema_collection).status = "ok"
    /\ LET a == Construct("EmailEnvelope", p, avro_schema_collection).value
           b == Construct("EmailEnvelope", q, avro_schema_collection).value
       IN  rd' = [called |-> TRUE, op |-> "compare", type |-> "EmailEnvelope",
                  arg |-> << "pair", << a, b >> >>,
                  iter |-> << iter_p, iter_q >>,
                  result |-> [eq |-> EmailEnvelope_eq(a, b, iter_p, iter_q),
                              lt |-> EmailEnvelope_lt(a, b, iter_p, iter_q),
                              gt |-> EmailEnvelope_gt(a, b, iter_p, iter_q),
                              hash |-> << EmailEnvelope_hash(a, iter_p),
                                          EmailEnvelope_hash(b, iter_q) >>,
                              dict |-> << EmailEnvelope_get_as_dict(a, iter_p),
                                          EmailEnvelope_get_as_dict(b, iter_q) >>]]
    /\ UNCHANGED << dest, wr >>
    /\ UNCHANGED loadvars

\* len(str): the lengths of the strings of StrOrder
StrLenTable ==
    << 0, 4, 2, 8, 8, 11, 1, 1, 3, 1, 2, 2, 1, 2, 2, 2, 2, 2, 2, 2, 12, 10, 4, 2, 2, 2 >>

StrLen(v) == StrLenTable[StrPos(Payload(v))]

\* EmailAttachment.__lt__ with the contents themselves compared in place of their
\* length and hash
EmailAttachment_lt_raw(self, other) ==
    LET a == Fields(self)
        b == Fields(other)
    IN  IF a.filename # b.filename
        THEN StrLt(Payload(a.filename), Payload(b.filename))
        ELSE IF a.mimetype # b.mimetype
        THEN StrLt(Payload(a.mimetype), Payload(b.mimetype))
        ELSE StrLt(Payload(a.contents_base64), Payload(b.contents_base64))

\* EmailAttachment.__lt__ (both attachments, all fields str)
EmailAttachment_lt(self, other) ==
    LET a == Fields(self)
        b == Fields(other)
    IN  IF a.filename # b.filename
        THEN StrLt(Payload(a.filename), Payload(b.filename))
        ELSE IF a.mimetype # b.mimetype
        THEN StrLt(Payload(a.mimetype), Payload(b.mimetype))
        ELSE IF StrLen(a.contents_base64) # StrLen(b.contents_base64)
        THEN StrLen(a.contents_base64) < StrLen(b.contents_base64)
        ELSE hash128(a.contents_base64) < hash128(b.contents_base64)

\* EmailAttachment.__gt__: the same tests with > for <
EmailAttachment_gt(self, other) == EmailAttachment_lt(other, self)

\* an attachment object: the instance and the identity of the object
AttachmentObject(id, instance) == [id |-> id, instance |-> instance]

\* sorted(iterable) for attachment objects, by insertion with EmailAttachment.__lt__
RECURSIVE sorted_attachments(_)
sorted_attachments(q) ==
    IF q = << >> THEN << >>
    ELSE LET rest == sorted_attachments(SubSeq(q, 1, Len(q) - 1))
             x == q[Len(q)]
             i == Cardinality({ j \in 1..Len(rest) :
                                  ~EmailAttachment_lt(x.instance, rest[j].instance) })
         IN  SubSeq(rest, 1, i) \o << x >> \o SubSeq(rest, i + 1, Len(rest))

\* object.__repr__ (EmailAttachment defines __str__ only): the class and the address
object_repr(x) == << "EmailAttachment object at", x.id >>

\* str(list): the repr of every element
str_of_list(q) == [ i \in 1..Len(q) |-> object_repr(q[i]) ]

\* EmailMessageMetadata.__str__
EmailMessageMetadata_str(self) ==
    LET f == Fields(self)
    IN  << f.router_source_tag, f.routed_timestamp_iso8601, IPAddress_str(f.email_sender_ip),
           f.attachment_count,
           IF f.email_spf_sender_passed = PyNone
           THEN PyStr("Not Available") ELSE f.email_spf_sender_passed,
           IF f.email_dkim_sender_passed = PyNone
           THEN PyStr("Not Available") ELSE f.email_dkim_sender_passed,
           f.email_headers >>

\* EmailContainer.__str__; iter is the iteration order of email_attachment_collection
EmailContainer_str(self, iter) ==
    LET f == Fields(self)
    IN  << EmailEnvelope_str(f.email_envelope,
                             SeqOfSet(Payload(Fields(f.email_envelope).address_to_collection))),
           f.email_body,
           EmailMessageMetadata_str(f.email_message_metadata),
           str_of_list(sorted_attachments(iter)) >>

\* EmailContainer.__hash__: hash(str(self)); equal strings have equal hashes
EmailContainer_hash(self, iter) == EmailContainer_str(self, iter)

\* list != list for attachment objects: the same object, or __eq__
AttachmentListsEqual(a, b) ==
    /\ Len(a) = Len(b)
    /\ \A i \in 1..Len(a) : a[i].id = b[i].id \/ container_eq(a[i].instance, b[i].instance)

\* EmailContainer.__eq__ (email_body is None in both)
EmailContainer_eq(self, other, iter_self, iter_other) ==
    LET a == Fields(self)
        b == Fields(other)
    IN  /\ TypeOf(other) = "EmailContainer"
        /\ a.email_body = b.email_body
        /\ EmailEnvelope_eq(a.email_envelope, b.email_envelope,
                            SeqOfSet(Payload(Fields(a.email_envelope).address_to_collection)),
                            SeqOfSet(Payload(Fields(b.email_envelope).address_to_collection)))
        /\ container_eq(a.email_message_metadata, b.email_message_metadata)
        /\ AttachmentListsEqual(sorted_attachments(iter_self), sorted_attachments(iter_other))

\* attachment objects: 1 and 3 are equal attachments, and so are 2 and 4
AttachmentObjects ==
    { AttachmentObject(1, << "EmailAttachment", EmailAttachmentParameters(PyStr("f1"), PyStr("c1")) >>),
      AttachmentObject(2, << "EmailAttachment", EmailAttachmentParameters(PyStr("f1"), PyStr("c2")) >>),
      AttachmentObject(3, << "EmailAttachment", EmailAttachmentParameters(PyStr("f1"), PyStr("c1")) >>),
      AttachmentObject(4, << "EmailAttachment", EmailAttachmentParameters(PyStr("f1"), PyStr("c2")) >>) }

\* frozenset(objects): equal attachments are kept once
AttachmentCollections ==
    { S \in SUBSET AttachmentObjects :
        \A x \in S, y \in S : x.instance = y.instance => x = y }

\* a caller builds two containers and compares and hashes them
CompareContainers(iter_p, iter_q) ==
    /\ pc = "ready"
    /\ ~rd.called
    /\ LET p == EmailContainerParameters(PyNone, { x.instance : x \in Range(iter_p) })
           q == EmailContainerParameters(PyNone, { x.instance : x \in Range(iter_q) })
       IN  /\ Construct("EmailContainer", p, avro_schema_collection).status = "ok"
           /\ LET a == Construct("EmailContainer", p, avro_schema_collection).value
                  b == Construct("EmailContainer", q, avro_schema_collection).value
              IN  rd' = [called |-> TRUE, op |-> "compare", type |-> "EmailContainer",
                         arg |-> << "pair", << a, b >> >>,
                         iter |-> << iter_p, iter_q >>,
                         result |-> [eq |-> EmailContainer_eq(a, b, iter_p, iter_q),
                                     hash |-> << EmailContainer_hash(a, iter_p),
                                                 EmailContainer_hash(b, iter_q) >>]]
    /\ UNCHANGED << dest, wr >>
    /\ UNCHANGED loadvars

\* a < b and a > b on two values of the model: "lt", "gt", "eq" (neither holds), or
\* "TypeError" where Python has no ordering (None, or values of different types)
Cmp3(a, b) ==
    IF TypeOf(a) # TypeOf(b) \/ TypeOf(a) = "NoneType" THEN "TypeError"
    ELSE IF a = b THEN "eq"
    ELSE IF TypeOf(a) = "str"
    THEN IF StrLt(Payload(a), Payload(b)) THEN "lt" ELSE "gt"
    ELSE IF TypeOf(a) = "bool"
    THEN IF Payload(b) THEN "lt" ELSE "gt"
    ELSE IF Payload(a) < Payload(b) THEN "lt" ELSE "gt"

\* one optional boolean in __lt__ with an except block that only passes: a
\* comparison with None decides nothing
OptionalBool_lt_pass(a, b) ==
    IF Cmp3(a, b) = "TypeError" THEN "next"
    ELSE IF Cmp3(a, b) = "lt" THEN "True"
    ELSE IF Cmp3(a, b) = "gt" THEN "False"
    ELSE "next"

\* one optional boolean in __lt__: the try block, then the except TypeError block
OptionalBool_lt(a, b) ==
    IF Cmp3(a, b) = "TypeError"
    THEN IF TypeOf(a) = "NoneType"
         THEN IF TypeOf(b) # "NoneType" THEN "True" ELSE "next"
         ELSE IF TypeOf(b) = "NoneType"
         THEN IF TypeOf(a) # "NoneType" THEN "False" ELSE "next"
         ELSE "next"
    ELSE IF Cmp3(a, b) = "lt" THEN "True"
    ELSE IF Cmp3(a, b) = "gt" THEN "False"
    ELSE "next"

\* one optional boolean in __gt__
OptionalBool_gt(a, b) ==
    IF Cmp3(a, b) = "TypeError"
    THEN IF TypeOf(a) = "NoneType"
         THEN IF TypeOf(b) # "NoneType" THEN "False" ELSE "next"
         ELSE IF TypeOf(b) = "NoneType"
         THEN IF TypeOf(a) # "NoneType" THEN "True" ELSE "next"
         ELSE "next"
    ELSE IF Cmp3(a, b) = "gt" THEN "True"
    ELSE IF Cmp3(a, b) = "lt" THEN "False"
    ELSE "next"

\* the fields EmailMessageMetadata compares before the two flags, in order
MetadataPlainFields ==
    << "router_source_tag", "routed_timestamp_iso8601", "email_sender_ip",
       "attachment_count", "email_headers" >>

\* the chain of if/elif over the plain fields from the i-th on, then the flags;
\* first is the outcome that returns True ("lt" in __lt__, "gt" in __gt__)
RECURSIVE MetadataChain(_, _, _, _)
MetadataChain(self, other, i, first) ==
    IF i > Len(MetadataPlainFields)
    THEN LET spf == IF first = "lt"
                    THEN OptionalBool_lt(Fields(self).email_spf_sender_passed,
                                         Fields(other).email_spf_sender_passed)
                    ELSE OptionalBool_gt(Fields(self).email_spf_sender_passed,
                                         Fields(other).email_spf_sender_passed)
             dkim == IF first = "lt"
                     THEN OptionalBool_lt(Fields(self).email_dkim_sender_passed,
                                          Fields(other).email_dkim_sender_passed)
                     ELSE OptionalBool_gt(Fields(self).email_dkim_sender_passed,
                                          Fields(other).email_dkim_sender_passed)
         IN  IF spf # "next" THEN [status |-> "ok", value |-> (spf = "True")]
             ELSE IF dkim # "next" THEN [status |-> "ok", value |-> (dkim = "True")]
             ELSE [status |-> "ok", value |-> FALSE]
    ELSE LET c == Cmp3(Fields(self)[MetadataPlainFields[i]],
                       Fields(other)[MetadataPlainFields[i]])
         IN  IF c = "TypeError" THEN [status |-> "TypeError", value |-> FALSE]
             ELSE IF c = "eq" THEN MetadataChain(self, other, i + 1, first)
             ELSE [status |-> "ok", value |-> (c = first)]

\* EmailMessageMetadata.__lt__
EmailMessageMetadata_lt(self, other) == MetadataChain(self, other, 1, "lt")

\* EmailMessageMetadata.__gt__
EmailMessageMetadata_gt(self, other) == MetadataChain(self, other, 1, "gt")

\* EmailMessageMetadata.__eq__
EmailMessageMetadata_eq(self, other) ==
    /\ \A i \in 1..Len(MetadataPlainFields) :
          Fields(self)[MetadataPlainFields[i]] = Fields(other)[MetadataPlainFields[i]]
    /\ Fields(self).email_spf_sender_passed = Fields(other).email_spf_sender_passed
    /\ Fields(self).email_dkim_sender_passed = Fields(other).email_dkim_sender_passed

\* the state with a missing flag read as a failed check
authentication_filters_state_coerced(self) ==
    PyBool(/\ Fields(self).email_spf_sender_passed = PyBool(TRUE)
           /\ Fields(self).email_dkim_sender_passed = PyBool(TRUE))

\* EmailMessageMetadata.authentication_filters_state
authentication_filters_state(self) ==
    IF \/ TypeOf(Fields(self).email_dkim_sender_passed) = "NoneType"
       \/ TypeOf(Fields(self).email_spf_sender_passed) = "NoneType"
    THEN PyNone
    ELSE IF Payload(Fields(self).email_spf_sender_passed)
    THEN Fields(self).email_dkim_sender_passed
    ELSE Fields(self).email_spf_sender_passed

OptionalBools == { PyNone, PyBool(FALSE), PyBool(TRUE) }

MetadataPool ==
    { EmailMessageMetadataParameters(n, spf, dkim) :
        n \in { PyInt(1), PyInt(2) }, spf \in OptionalBools, dkim \in OptionalBools }

\* a caller builds two metadata containers, reads their authentication state and
\* compares them
CompareMetadata(p, q) ==
    /\ pc = "ready"
    /\ ~rd.called
    /\ Construct("EmailMessageMetadata", p, avro_schema_collection).status = "ok"
    /\ LET a == Construct("EmailMessageMetadata", p, avro_schema_collection).value
           b == Construct("EmailMessageMetadata", q, avro_schema_collection).value
       IN  rd' = [called |-> TRUE, op |-> "compare", type |-> "EmailMessageMetadata",
                  arg |-> << "pair", << a, b >> >>,
                  result |-> [eq |-> EmailMessageMetadata_eq(a, b),
                              lt |-> EmailMessageMetadata_lt(a, b),
                              gt |-> EmailMessageMetadata_gt(a, b),
                              state |-> << authentication_filters_state(a),
                                           authentication_filters_state(b) >>]]
    /\ UNCHANGED << dest, wr >>
    /\ UNCHANGED loadvars

\* EmailAttachment.__eq__
EmailAttachment_eq(self, other) ==
    IF Fields(self).filename # Fields(other).filename THEN FALSE
    ELSE IF Fields(self).mimetype # Fields(other).mimetype THEN FALSE
    ELSE IF hash128(Fields(self).contents_base64) # hash128(Fields(other).contents_base64)
    THEN FALSE
    ELSE TRUE

\* attachments with two file names, two mimetypes and contents of length one and two
AttachmentPool ==
    { << "EmailAttachmentParameters",
         [filename |-> PyStr(f), mimetype |-> PyStr(m), contents_base64 |-> PyStr(c)] >> :
        f \in { "f1", "f2" }, m \in { "m1", "m2" }, c \in { "c", "c1", "c2" } }

\* a caller builds two attachments and compares them
CompareAttachments(p, q) ==
    /\ pc = "ready"
    /\ ~rd.called
    /\ Construct("EmailAttachment", p, avro_schema_collection).status = "ok"
    /\ LET a == Construct("EmailAttachment", p, avro_schema_collection).value
           b == Construct("EmailAttachment", q, avro_schema_collection).value
       IN  rd' = [called |-> TRUE, op |-> "compare", type |-> "EmailAttachment",
                  arg |-> << "pair", << a, b >> >>,
                  result |-> [eq |-> EmailAttachment_eq(a, b),
                              lt |-> EmailAttachment_lt(a, b),
                              gt |-> EmailAttachment_gt(a, b)]]
    /\ UNCHANGED << dest, wr >>
    /\ UNCHANGED loadvars

\* the outcome of a comparison method: the value returned or the exception raised
Result(b) == [status |-> "ok", value |-> b]

Raises(exception) == [status |-> exception, value |-> FALSE]

\* message_body_html is None or len(message_body_html) == 0
NoHtml(body) ==
    \/ TypeOf(Fields(body).message_body_html) = "NoneType"
    \/ StrLen(Fields(body).message_body_html) = 0

\* EmailBody.__eq__: hash128 of both texts, then hash128 of both html fields;
\* hash128(None) raises TypeError
EmailBody_eq(self, other) ==
    IF Fields(self).message_body_text # Fields(other).message_body_text
    THEN Result(FALSE)
    ELSE IF \/ TypeOf(Fields(self).message_body_html) = "NoneType"
            \/ TypeOf(Fields(other).message_body_html) = "NoneType"
    THEN Raises("TypeError")
    ELSE Result(Fields(self).message_body_html = Fields(other).message_body_html)

\* EmailBody.__ne__: the bare name __eq__ is not defined in the module
EmailBody_ne(self, other) == Raises("NameError")

\* EmailBody.__lt__
EmailBody_lt(self, other) ==
    IF NoHtml(self)
    THEN IF NoHtml(other)
         THEN Result(StrLt(Payload(Fields(self).message_body_text),
                           Payload(Fields(other).message_body_text)))
         ELSE Result(TRUE)
    ELSE IF NoHtml(other)
         THEN Result(FALSE)
         ELSE Result(StrLt(Payload(Fields(self).message_body_text),
                           Payload(Fields(other).message_body_text)))

\* EmailBody.__gt__
EmailBody_gt(self, other) ==
    IF NoHtml(self)
    THEN IF NoHtml(other)
         THEN Result(StrLt(Payload(Fields(other).message_body_text),
                           Payload(Fields(self).message_body_text)))
         ELSE Result(FALSE)
    ELSE IF NoHtml(other)
         THEN Result(TRUE)
         ELSE Result(StrLt(Payload(Fields(other).message_body_text),
                           Payload(Fields(self).message_body_text)))

\* EmailBody.__ge__: the bare name __lt__ is not defined in the module
EmailBody_ge(self, other) == Raises("NameError")

\* EmailBody.__le__: the bare name __gt__ is not defined in the module
EmailBody_le(self, other) == Raises("NameError")

BodyPool ==
    { EmailBodyParameters(PyStr(text), html) :
        text \in { "a", "t1" }, html \in { PyNone, PyStr(""), PyStr("b"), PyStr("h1") } }

\* a caller holds two bodies and compares them with every operator; built is the
\* outcome of EmailBody(message_body_text, message_body_html), the results are those
\* of the methods on objects with these parameters
CompareBodies(p, q) ==
    /\ pc = "ready"
    /\ ~rd.called
    /\ LET a == << "EmailBody", p >>
           b == << "EmailBody", q >>
       IN  rd' = [called |-> TRUE, op |-> "compare", type |-> "EmailBody",
                  arg |-> << "pair", << a, b >> >>,
                  built |-> Construct("EmailBody", p, avro_schema_collection).status,
                  result |-> [eq |-> EmailBody_eq(a, b),
                              ne |-> EmailBody_ne(a, b),
                              lt |-> EmailBody_lt(a, b),
                              gt |-> EmailBody_gt(a, b),
                              ge |-> EmailBody_ge(a, b),
                              le |-> EmailBody_le(a, b),
                              tl |-> EmailBody_lt(b, a)]]
    /\ UNCHANGED << dest, wr >>
    /\ UNCHANGED loadvars

\* a text as the sequence of its characters: a letter, carriage return, line feed
Chars == { "x", "CR", "LF" }

Texts == UNION { [1..n -> Chars] : n \in 0..MaxChars }

\* str.strip('\r'): the carriage returns at both ends are removed
RECURSIVE lstrip_cr(_)
lstrip_cr(s) == IF s # << >> /\ Head(s) = "CR" THEN lstrip_cr(Tail(s)) ELSE s

RECURSIVE rstrip_cr(_)
rstrip_cr(s) ==
    IF s # << >> /\ s[Len(s)] = "CR" THEN rstrip_cr(SubSeq(s, 1, Len(s) - 1)) ELSE s

strip_cr(s) == rstrip_cr(lstrip_cr(s))

\* str.split('\n'): the pieces between line feeds, empty pieces kept
RECURSIVE split_lf(_)
split_lf(s) ==
    IF \A i \in 1..Len(s) : s[i] # "LF"
    THEN << s >>
    ELSE LET i == CHOOSE i \in 1..Len(s) : s[i] = "LF" /\ \A j \in 1..(i - 1) : s[j] # "LF"
         IN  << SubSeq(s, 1, i - 1) >> \o split_lf(SubSeq(s, i + 1, Len(s)))

\* EmailBody.message_body_as_lines_list
message_body_as_lines_list(message_body_text) == split_lf(strip_cr(message_body_text))

\* a caller reads the line list of a body with the given text
BodyLines(message_body_text) ==
    /\ pc = "ready"
    /\ ~rd.called
    /\ rd' = [called |-> TRUE, op |-> "lines", type |-> "EmailBody",
              arg |-> message_body_text,
              result |-> message_body_as_lines_list(message_body_text)]
    /\ UNCHANGED << dest, wr >>
    /\ UNCHANGED loadvars

\* one entry of the dkim string, between commas, by what the parser sees in it:
\* "<key>: pass", "<key>: PASS", "<key>: fail", no colon, two colons
DkimEntries == { "pass", "PASS", "fail", "nocolon", "twocolons" }

\* the dkim value of the SendGrid payload: absent, or a string that does or does not
\* begin with "{" and end with "}" around its entries
NoDkim == [present |-> FALSE, open |-> FALSE, close |-> FALSE, entries |-> << >>]

DkimStrings ==
    { [present |-> TRUE, open |-> o, close |-> c, entries |-> q] :
        o \in BOOLEAN, c \in BOOLEAN,
        q \in UNION { [1..n -> DkimEntries] : n \in 0..MaxEntries } }

\* str.split(','): the text between the braces; an empty text is one empty entry
dkim_split(dkim) == IF dkim.entries = << >> THEN << "nocolon" >> ELSE dkim.entries

\* the for loop over the entries from the i-th on: "ValueError" at an entry that
\* is not <key>:<value>, "break" at a value other than pass, "end" otherwise
RECURSIVE dkim_loop(_, _)
dkim_loop(entries, i) ==
    IF i > Len(entries) THEN "end"
    ELSE IF entries[i] \in { "nocolon", "twocolons" } THEN "ValueError"
    ELSE IF entries[i] = "fail" THEN "break"
    ELSE dkim_loop(entries, i + 1)

\* ParsedEmail.__init__, the DKIM block: the value of email_dkim_passed after it
email_dkim_passed(dkim) ==
    IF ~dkim.present THEN PyNone                      \* except KeyError
    ELSE IF ~dkim.open \/ ~dkim.close THEN PyNone     \* except ValueError
    ELSE IF dkim_loop(dkim_split(dkim), 1) = "ValueError" THEN PyNone
    ELSE \* after the loop, ended or broken out of: email_dkim_passed = True
         PyBool(TRUE)

\* the adapter parses a payload with the given dkim value
ParseDkim(dkim) ==
    /\ pc = "ready"
    /\ ~rd.called
    /\ rd' = [called |-> TRUE, op |-> "dkim", type |-> "ParsedEmail", arg |-> dkim,
              result |-> email_dkim_passed(dkim)]
    /\ UNCHANGED << dest, wr >>
    /\ UNCHANGED loadvars

\* start-up, then callers that compare containers
NextCompare ==
    \/ EnumInit
    \/ AvroMessageSchemaFrozen
    \/ EnterFamily
    \/ EnterPath
    \/ \E e \in listing : ScanEntry(e)
    \/ EndScan
    \/ EndFamily
    \/ EndLoad
    \/ \E p \in EnvelopePool, q \in EnvelopePool :
          \E ip \in IterationOrders(Payload(Payload(p).address_to_collection)),
             iq \in IterationOrders(Payload(Payload(q).address_to_collection)) :
             CompareEnvelopes(p, q, ip, iq)
    \/ \E S \in AttachmentCollections, T \in AttachmentCollections :
          \E ip \in IterationOrders(S), iq \in IterationOrders(T) : CompareContainers(ip, iq)
    \/ \E p \in MetadataPool, q \in MetadataPool : CompareMetadata(p, q)
    \/ \E p \in AttachmentPool, q \in AttachmentPool : CompareAttachments(p, q)
    \/ \E p \in BodyPool, q \in BodyPool : CompareBodies(p, q)
    \/ \E text \in Texts : BodyLines(text)
    \/ \E dkim \in DkimStrings \cup { NoDkim } : ParseDkim(dkim)

SpecCompare == Init /\ [][NextCompare]_vars

(***************************************************************************)
(* Properties of the containers.                                           *)
(***************************************************************************)
TheUri == PyStr("/tmp/x.avro")

KeyResolves(t) == get_avro_schema_record(t, avro_schema_collection).status = "ok"

\* the write_avro call was made with correctly typed parameters, a usable URI and a
\* registry that holds the schema of the type
ValidWrite ==
    /\ wr.called
    /\ wr.parameters \in ValidParameters(wr.type)
    /\ wr.uri # ""
    /\ KeyResolves(wr.type)

\* from_avro of the class of the last write, on the file it wrote
ReadBack ==
    /\ wr.called
    /\ rd.called
    /\ rd.op = "from_avro"
    /\ rd.type = wr.type
    /\ rd.arg = PyStr(wr.uri)

\* C1: for each of the five container types, write_avro of a valid instance followed
\* by from_avro of the same destination returns a container equal to the one written.
C1_RoundTrip ==
    /\ ValidWrite => wr.status = "ok"
    /\ (ValidWrite /\ ReadBack) =>
          /\ rd.result.status = "ok"
          /\ container_eq(rd.result.value, wr.instance)

\* C2: after a successful write_avro the destination holds exactly one record, the map
\* of the instance just written, whatever the file held before; a following from_avro
\* returns a container equal to that instance.
C2_OneRecordMostRecent ==
    (wr.called /\ wr.status = "ok") =>
        /\ dest.kind = "avro"
        /\ dest.records = << Datum(wr.type, get_as_dict(wr.instance).value) >>
        /\ ReadBack =>
              /\ rd.result.status = "ok"
              /\ container_eq(rd.result.value, wr.instance)

\* a successful write_avro after a successful write_avro, then read back
C2_Witness ==
    /\ wr.called
    /\ wr.status = "ok"
    /\ wr.rewrite
    /\ ReadBack
    /\ rd.result.status = "ok"

\* C3: from_avro of an Avro file with zero records raises
\* EmeraldMessageDeserializationError ('no data'), with more than one record it raises
\* EmeraldMessageDeserializationError ('too many records'), and with exactly one
\* record it gives what from_avro_as_dict gives for that record.
C3_DecodeByRecordCount ==
    (rd.called /\ rd.op = "from_avro" /\ rd.arg = TheUri /\ dest.kind = "avro") =>
        /\ Len(dest.records) = 0 =>
              /\ rd.result.status = "EmeraldMessageDeserializationError"
              /\ rd.result.count = 0
        /\ Len(dest.records) > 1 =>
              /\ rd.result.status = "EmeraldMessageDeserializationError"
              /\ rd.result.count = Len(dest.records)
        /\ Len(dest.records) = 1 =>
              rd.result = from_avro_as_dict(rd.type, dest.records[1], avro_schema_collection)

\* C4: from_avro_as_dict of a map lacking a key of the type's map raises
\* EmeraldMessageDeserializationError naming a missing key, the number of keys
\* received and the keys present.
C4_MissingFieldReported ==
    (/\ rd.called
     /\ rd.op = "from_avro_as_dict"
     /\ Range(KeysOf(rd.type)) \ DOMAIN Payload(rd.arg) # {}) =>
        /\ rd.result.status = "EmeraldMessageDeserializationError"
        /\ rd.result.missing \in Range(KeysOf(rd.type)) \ DOMAIN Payload(rd.arg)
        /\ rd.result.count = Cardinality(DOMAIN Payload(rd.arg))
        /\ rd.result.present = DOMAIN Payload(rd.arg)
        /\ rd.result.value = PyNone

\* write_avro of an instance whose map does not satisfy the schema of its type
SchemaMismatch ==
    /\ wr.called
    /\ wr.cause # "construct"
    /\ wr.uri # ""
    /\ get_as_dict(wr.instance).status = "ok"
    /\ ~ValidateRecord(wr.type, get_as_dict(wr.instance).value)

C6_ConstructionValidated ==
    (rd.called /\ rd.op = "construct" /\ rd.arg \in ValidParameters(rd.type)) =>
        /\ rd.result.status = "ok" <=>
              /\ get_container_schema_matching_identifier(rd.type).container_avro_schema_name # ""
              /\ KeyResolves(rd.type)
        /\ rd.result.status = "ok" => rd.result.value = << rd.type, rd.arg >>
        /\ rd.result.status # "ok" => rd.result.value = PyNone

(***************************************************************************)
(* Properties of the registry.                                             *)
(***************************************************************************)

\* C7: a lookup by (family, name) returns a record of the registry with exactly that
\* family and name when one exists; otherwise it raises KeyError and the error lists
\* every (family, name) pair of the registry, in registry order.
C7_LookupExactOrNotFound ==
    lookup_result.called =>
        LET list == avro_schema_collection.avro_schema_list
            r == lookup_result.result
            present == \E i \in 1..Len(list) :
                          /\ list[i].avro_schema_family_name = lookup_result.schema_family
                          /\ list[i].avro_schema_name = lookup_result.schema_name
        IN  IF present
            THEN /\ r.status = "ok"
                 /\ r.record \in Range(list)
                 /\ r.record.avro_schema_family_name = lookup_result.schema_family
                 /\ r.record.avro_schema_name = lookup_result.schema_name
            ELSE /\ r.status = "KeyError"
                 /\ r.record = NoRecord
                 /\ Len(r.known) = Len(list)
                 /\ \A i \in 1..Len(list) :
                       r.known[i] = << list[i].avro_schema_family_name,
                                       list[i].avro_schema_name >>

\* a miss on a registry of two families, one of which holds the requested name
C7_Witness ==
    /\ lookup_result.called
    /\ lookup_result.result.status = "KeyError"
    /\ Len(lookup_result.result.known) >= 2
    /\ \E i \in 1..Len(lookup_result.result.known) :
          lookup_result.result.known[i][2] = lookup_result.schema_name

\* the files of a scanned family that the load has to parse: the entries of the
\* non-hidden subdirectories and of the root that are files with the extension
MatchingFiles(t, fam, ext) ==
    { e \in t.files : /\ e.family = fam
                      /\ ~e.isdir
                      /\ e.ext = ext
                      /\ (e.sub = "" \/ ~StartsWithDot(e.sub)) }

\* C8: the load is all-or-nothing.  A load that failed exposes no registry; a registry
\* is exposed only when every scanned family was reachable and every matching file
\* of it is a well-formed schema, and then it holds a record for each of them.
C8_AllOrNothing ==
    /\ pc = "failed" => ~avro_schema_collection.built
    /\ avro_schema_collection.built =>
          \A i \in 1..Len(schema_subfolders) :
             /\ schema_subfolders[i] \in tree.folders
             /\ \A e \in MatchingFiles(tree, schema_subfolders[i], schema_extension) :
                   /\ e.content.kind = "schema"
                   /\ \E k \in 1..Len(avro_schema_collection.avro_schema_list) :
                         avro_schema_collection.avro_schema_list[k] =
                            AvroMessageSchemaRecord(FamilyMember(schema_subfolders[i]), e.content)

\* a load that fails after records were parsed, and exposes nothing
C8_Witness ==
    /\ pc = "failed"
    /\ load_error.status = "EmeraldSchemaParsingException"
    /\ Len(avro_schema_list) >= 1
    /\ ~avro_schema_collection.built

\* C9: start-up fails whenever the declared family identifiers differ from the
\* non-hidden top-level folders, in either direction.
C9_SymmetricValidation ==
    (pc # "import" /\ declared # { n \in tree.folders : ~StartsWithDot(n) })
        => (pc = "failed" /\ load_error.status = "RuntimeError")

NamesOfRecords(list, n) == { list[j].avro_schema : j \in 1..n }

\* C11: every schema file is parsed against the namespace holding exactly the schemas
\* of the files parsed before it in the same load, and a parsed file appends one record
\* (current family, name embedded in the schema); until the load fails, the record
\* list and the namespace describe the files parsed so far, in parse order.
C11_ListFollowsNamespace ==
    LET n == Len(avro_schema_list)
    IN  /\ Len(parse_log) = n \/ (pc = "failed" /\ Len(parse_log) = n + 1)
        /\ \A i \in 1..Len(parse_log) :
              parse_log[i].names = NamesOfRecords(avro_schema_list, i - 1)
        /\ \A i \in 1..n :
              avro_schema_list[i] =
                 AvroMessageSchemaRecord(
                    AvroMessageSchemaFamily_call(parse_log[i].file.family, declared).member,
                    parse_log[i].file.content)
        /\ pc # "failed" => known_avro_schema_dot_names = NamesOfRecords(avro_schema_list, n)

\* a load that parsed a schema referring to a schema of an earlier search path
C11_Witness ==
    /\ pc = "ready"
    /\ Len(avro_schema_list) >= 2
    /\ \E i \in 1..Len(parse_log) :
          /\ parse_log[i].file.content.refs # {}
          /\ parse_log[i].file.content.refs \subseteq parse_log[i].names

(***************************************************************************)
(* Properties of comparison and hashing.                                   *)
(***************************************************************************)
Compared(t) == rd.called /\ rd.op = "compare" /\ rd.type = t

Left == rd.arg[2][1]

Right == rd.arg[2][2]

\* C12: two envelopes that differ only in the order in which the same to-addresses
\* were supplied are equal, have the same hash, are not ordered before or after one
\* another, and give the same map, with the addresses as a sorted list.
C12_EnvelopeOrderInvariant ==
    (/\ Compared("EmailEnvelope")
     /\ Fields(Left).address_from = Fields(Right).address_from
     /\ Fields(Left).message_subject = Fields(Right).message_subject
     /\ Fields(Left).message_rx_timestamp_iso8601 = Fields(Right).message_rx_timestamp_iso8601
     /\ Range(rd.iter[1]) = Range(rd.iter[2])) =>
        /\ rd.result.eq
        /\ rd.result.hash[1] = rd.result.hash[2]
        /\ ~rd.result.lt
        /\ ~rd.result.gt
        /\ rd.result.dict[1] = rd.result.dict[2]
        /\ rd.result.dict[1] = get_as_dict(Left).value
        /\ LET l == Payload(Payload(rd.result.dict[1]).address_to_collection)
           IN  \A i \in 1..(Len(l) - 1) : StrLt(Payload(l[i]), Payload(l[i + 1]))

\* the same three addresses, iterated in different orders
C12_Witness ==
    /\ Compared("EmailEnvelope")
    /\ Fields(Left) = Fields(Right)
    /\ Len(rd.iter[1]) = 3
    /\ rd.iter[1] # rd.iter[2]
    /\ rd.iter[1] # sorted(rd.iter[1])

\* C13: two EmailContainers with equal metadata, envelope and body whose attachment
\* collections hold equal attachments, as distinct objects in any order, are equal
\* and have equal hash values.
C13_ContainerEqHashOrderFree ==
    (/\ Compared("EmailContainer")
     /\ Fields(Left).email_attachment_collection = Fields(Right).email_attachment_collection) =>
        /\ rd.result.eq
        /\ rd.result.hash[1] = rd.result.hash[2]

\* C14: get_as_dict of an EmailContainer holding no, one or several attachments
\* returns a map with exactly the keys email_message_metadata, email_envelope,
\* email_body and email_attachment_collection: the maps of the nested containers and
\* the list of the attachments' maps.
C14_ContainerMap ==
    (rd.called /\ rd.op = "get_as_dict" /\ rd.type = "EmailContainer") =>
        /\ rd.result.status = "ok"
        /\ DOMAIN Payload(rd.result.value) = Range(KeysOf("EmailContainer"))
        /\ Payload(rd.result.value).email_message_metadata =
              get_as_dict(Payload(rd.arg).email_message_metadata).value
        /\ Payload(rd.result.value).email_envelope =
              get_as_dict(Payload(rd.arg).email_envelope).value
        /\ Range(Payload(Payload(rd.result.value).email_attachment_collection)) =
              { get_as_dict(x).value : x \in Payload(Payload(rd.arg).email_attachment_collection) }

\* the flags of the left and right metadata
Spf(m) == Fields(m).email_spf_sender_passed

Dkim(m) == Fields(m).email_dkim_sender_passed

\* C15: the authentication state of a metadata container is True exactly when both
\* the SPF and the DKIM flag are True, False exactly when both flags are present and
\* one of them is False, and None whenever a flag is absent, also when the other
\* flag is False.
C15_AuthenticationTriState ==
    Compared("EmailMessageMetadata") =>
        /\ (rd.result.state[1] = PyBool(TRUE)) <=>
              (Spf(Left) = PyBool(TRUE) /\ Dkim(Left) = PyBool(TRUE))
        /\ (rd.result.state[1] = PyBool(FALSE)) <=>
              (/\ Spf(Left) # PyNone /\ Dkim(Left) # PyNone
               /\ (Spf(Left) = PyBool(FALSE) \/ Dkim(Left) = PyBool(FALSE)))
        /\ (rd.result.state[1] = PyNone) <=> (Spf(Left) = PyNone \/ Dkim(Left) = PyNone)
        /\ rd.result.state[1] \in OptionalBools

\* one flag absent, the other False: the state is None
C15_Witness ==
    /\ Compared("EmailMessageMetadata")
    /\ Spf(Left) = PyBool(FALSE)
    /\ Dkim(Left) = PyNone
    /\ rd.result.state[1] = PyNone

\* absent < False < True
FlagRank(v) == IF v = PyNone THEN 0 ELSE IF v = PyBool(FALSE) THEN 1 ELSE 2

\* the flags of a are lexicographically below those of b, SPF first
FlagsBelow(a, b) ==
    \/ FlagRank(Spf(a)) < FlagRank(Spf(b))
    \/ Spf(a) = Spf(b) /\ FlagRank(Dkim(a)) < FlagRank(Dkim(b))

\* C16: for two metadata containers equal in every field before the flags, a < b
\* holds exactly when a's (SPF, DKIM) pair is lexicographically below b's under
\* absent < False < True, a > b is the mirror image, and neither comparison raises.
C16_OptionalFlagOrder ==
    (/\ Compared("EmailMessageMetadata")
     /\ \A i \in 1..Len(MetadataPlainFields) :
           Fields(Left)[MetadataPlainFields[i]] = Fields(Right)[MetadataPlainFields[i]]) =>
        /\ rd.result.lt.status = "ok"
        /\ rd.result.gt.status = "ok"
        /\ rd.result.lt.value <=> FlagsBelow(Left, Right)
        /\ rd.result.gt.value <=> FlagsBelow(Right, Left)

\* equal SPF flags, DKIM absent on the left and False on the right
C16_Witness ==
    /\ Compared("EmailMessageMetadata")
    /\ Fields(Left).attachment_count = Fields(Right).attachment_count
    /\ Spf(Left) = PyBool(TRUE) /\ Spf(Right) = PyBool(TRUE)
    /\ Dkim(Left) = PyNone /\ Dkim(Right) = PyBool(FALSE)
    /\ rd.result.lt.value
    /\ ~rd.result.gt.value

\* the tuple an attachment is ordered by: file name, mimetype, length of the
\* contents, 128-bit hash of the contents
AttachmentKey(x) ==
    << StrPos(Payload(Fields(x).filename)), StrPos(Payload(Fields(x).mimetype)),
       StrLen(Fields(x).contents_base64), hash128(Fields(x).contents_base64) >>

KeyBelow(k, l) ==
    \E i \in 1..Len(k) : k[i] < l[i] /\ \A j \in 1..(i - 1) : k[j] = l[j]

\* C17: EmailAttachment a < b holds exactly when a's tuple (filename, mimetype,
\* length of contents, hash of contents) is lexicographically below b's, a > b is
\* the mirror image, and a = b holds exactly when filename, mimetype and content hash
\* agree; the contents themselves are not compared.
C17_AttachmentOrder ==
    Compared("EmailAttachment") =>
        /\ rd.result.lt <=> KeyBelow(AttachmentKey(Left), AttachmentKey(Right))
        /\ rd.result.gt <=> KeyBelow(AttachmentKey(Right), AttachmentKey(Left))
        /\ rd.result.eq <=>
              /\ Fields(Left).filename = Fields(Right).filename
              /\ Fields(Left).mimetype = Fields(Right).mimetype
              /\ AttachmentKey(Left)[4] = AttachmentKey(Right)[4]

\* same name, mimetype and length: the hash decides, against the order of the
\* contents as strings
C17_Witness ==
    /\ Compared("EmailAttachment")
    /\ Fields(Left).filename = Fields(Right).filename
    /\ Fields(Left).mimetype = Fields(Right).mimetype
    /\ AttachmentKey(Left)[3] = AttachmentKey(Right)[3]
    /\ StrLt(Payload(Fields(Right).contents_base64), Payload(Fields(Left).contents_base64))
    /\ rd.result.lt
    /\ ~rd.result.eq

\* C18: for every pair of EmailBody values, with or without HTML, the operators
\* ==, !=, <, >, <= and >= all return a result, a < b and b < a never both hold, and
\* of two different bodies one is below the other.
C18_BodyOrderTotal ==
    Compared("EmailBody") =>
        /\ \A op \in { "eq", "ne", "lt", "gt", "ge", "le" } : rd.result[op].status = "ok"
        /\ ~(rd.result.lt.value /\ rd.result.tl.value)
        /\ Left # Right => (rd.result.lt.value \/ rd.result.gt.value)

C20_HandlesClosed ==
    /\ \A i \in 1..Len(parse_log) : parse_log[i].handle.state = "closed"
    /\ wr.called => \A h \in wr.handles : h.state = "closed"
    /\ (rd.called /\ rd.op = "from_avro") => \A h \in rd.handles : h.state = "closed"

\* C21: from_avro on a source that does not exist raises
\* EmeraldMessageDeserializationError, not an exception of the file system.
C21_MissingSourceReported ==
    (/\ rd.called
     /\ rd.op = "from_avro"
     /\ dest.kind = "absent") =>
        rd.result.status = "EmeraldMessageDeserializationError"

\* C22: a registry load that fails, for a reason other than a rejected configuration
\* argument, fails with EmeraldSchemaParsingException: a file that is not JSON or not
\* a schema, and a family folder that cannot be reached or is not a declared family,
\* are all reported as that error.
C22_LoadFailuresDistinguishable ==
    (/\ pc = "failed"
     /\ schema_type_counter >= 1
     /\ load_error.status # "TypeError") =>
        load_error.status = "EmeraldSchemaParsingException"

C24_MapRoundTrip ==
    (rd.called /\ rd.op = "round_trip") =>
        /\ rd.result.status = "ok"
        /\ rd.eq
        /\ DOMAIN Payload(rd.again) = DOMAIN Payload(rd.dict)
        /\ \A k \in DOMAIN Payload(rd.dict) : Payload(rd.again)[k] = Payload(rd.dict)[k]
        /\ Fields(rd.result.value) = Fields(rd.arg)

\* a metadata with the second sender address, SPF absent and DKIM False, and an
\* envelope with three to-addresses, come back unchanged
C24_Witness ==
    /\ rd.called
    /\ rd.op = "round_trip"
    /\ rd.eq
    /\ \/ /\ rd.type = "EmailMessageMetadata"
          /\ Fields(rd.arg).email_sender_ip = << "IPAddress", 2 >>
          /\ Payload(rd.dict).email_sender_ip = PyStr("10.0.0.2")
          /\ Fields(rd.arg).email_spf_sender_passed = PyNone
          /\ Fields(rd.result.value).email_dkim_sender_passed = PyBool(FALSE)
       \/ /\ rd.type = "EmailEnvelope"
          /\ Cardinality(Payload(Fields(rd.arg).address_to_collection)) = 3
          /\ Len(Payload(Payload(rd.dict).address_to_collection)) = 3

\* C25: the line list of an EmailBody is its text split at the line feeds, and no
\* line of it contains a carriage return, whatever the line endings of the text.
C25_NoCarriageReturnInLines ==
    (rd.called /\ rd.op = "lines") =>
        \A i \in 1..Len(rd.result) : \A j \in 1..Len(rd.result[i]) : rd.result[i][j] # "CR"

\* the dkim string has the braces and every entry is <key>:<value>
DkimParses(dkim) ==
    /\ dkim.present /\ dkim.open /\ dkim.close
    /\ \A i \in 1..Len(dkim_split(dkim)) : dkim_split(dkim)[i] \in { "pass", "PASS", "fail" }

\* C26: the DKIM flag the SendGrid adapter hands to the metadata is True only if
\* every entry of the dkim string has the value pass in any case, False if the
\* string parses and an entry has another value, None if the key is absent or the
\* string does not parse.
C26_DkimAllPass ==
    (rd.called /\ rd.op = "dkim") =>
        /\ rd.result = PyBool(TRUE) =>
              \A i \in 1..Len(dkim_split(rd.arg)) : dkim_split(rd.arg)[i] \in { "pass", "PASS" }
        /\ (DkimParses(rd.arg) /\ \E i \in 1..Len(rd.arg.entries) : rd.arg.entries[i] = "fail")
              => rd.result = PyBool(FALSE)
        /\ ~DkimParses(rd.arg) => rd.result = PyNone

\* C27: two containers of one type that are equal have equal hash values; for
\* EmailEnvelope this includes envelopes whose subjects differ, which == does not
\* tell apart.
C27_EqualImpliesEqualHash ==
    ((Compared("EmailEnvelope") \/ Compared("EmailContainer")) /\ rd.result.eq) =>
        rd.result.hash[1] = rd.result.hash[2]

\* the outcome of a < b and of a > b in the comparison recorded
IsBelow == IF rd.type = "EmailMessageMetadata" THEN rd.result.lt.value ELSE rd.result.lt

IsAbove == IF rd.type = "EmailMessageMetadata" THEN rd.result.gt.value ELSE rd.result.gt

\* C28: for two EmailAttachments, two EmailEnvelopes or two EmailMessageMetadata
\* exactly one of a < b, a == b, a > b holds, and a <= b (not a > b) holds exactly
\* when a < b or a == b.
C28_Trichotomy ==
    (Compared("EmailAttachment") \/ Compared("EmailEnvelope")
        \/ Compared("EmailMessageMetadata")) =>
        /\ IsBelow \/ rd.result.eq \/ IsAbove
        /\ ~(IsBelow /\ rd.result.eq)
        /\ ~(IsAbove /\ rd.result.eq)
        /\ ~(IsBelow /\ IsAbove)
        /\ ~IsAbove <=> (IsBelow \/ rd.result.eq)

\* C29: in a registry that was built no two records have the same family and the
\* same schema name.
C29_FamilyAndNameUnique ==
    avro_schema_collection.built =>
        \A i, j \in 1..Len(avro_schema_collection.avro_schema_list) :
            LET list == avro_schema_collection.avro_schema_list
            IN  (/\ list[i].avro_schema_family_name = list[j].avro_schema_family_name
                 /\ list[i].avro_schema_name = list[j].avro_schema_name) => i = j

\* the schema file names of the model in the order of their names
FileNameOrder ==
    << "attachment.avsc", "attachment2.avsc", "body.avsc", "broken.avsc", "container.avsc",
       "envelope.avsc", "hidden.avsc", "invalid.avsc", "sms.avsc" >>

NameBefore(a, b) ==
    \E i, j \in 1..Len(FileNameOrder) :
        i < j /\ FileNameOrder[i] = a /\ FileNameOrder[j] = b

\* C30: the registry built from a resource tree and a configuration does not depend
\* on the order in which a directory listing returns the files of a search path: the
\* schema files of one search path are recorded in one order, that of their names,
\* in every registry built.
C30_BuildIndependentOfListingOrder ==
    avro_schema_collection.built =>
        \A i, j \in 1..Len(parse_log) :
            (/\ i < j
             /\ parse_log[i].file.family = parse_log[j].file.family
             /\ parse_log[i].file.sub = parse_log[j].file.sub) =>
                NameBefore(parse_log[i].file.name, parse_log[j].file.name)

====
